---- MODULE Spec2Model ----
(***************************************************************************)
(* NexRecon (hacker.py): the LAN host-discovery and monitoring subsystem.  *)
(*                                                                         *)
(*   Spec        network_scanner: discovery, the advanced-options menu,    *)
(*               monitor_network and the merge of its result.              *)
(*   SpecDeep    deep_scan_devices: the device classification.             *)
(*   SpecWol     wake_on_lan_menu: the magic packet.                       *)
(*                                                                         *)
(* An address of the local /24 segment is modelled by its host octet; the  *)
(* code probes 1..254, the model 1..MaxHost.                               *)
(***************************************************************************)
EXTENDS Integers, Sequences, FiniteSets, TLC

(* ------------------------------ bounds --------------------------------- *)

\* host octets of the segment that are probed (254 in the code)
MaxHost == 2

Addrs == 1..MaxHost

\* get_local_ip() returned None
NoIp == 0

(* ----------------------------- strings --------------------------------- *)
\* A Python string is a sequence of one-character strings, so that it can be
\* indexed, sliced and measured as the code does.

Unknown == <<"U","n","k","n","o","w","n">>
UnknownVendor == <<"U","n","k","n","o","w","n"," ","V","e","n","d","o","r">>
PrivateMAC == <<"P","r","i","v","a","t","e"," ","M","A","C">>
VMware == <<"V","M","w","a","r","e">>
QemuKvm == <<"Q","E","M","U","/","K","V","M">>

LowerChars == <<"a","b","c","d","e","f">>
UpperChars == <<"A","B","C","D","E","F">>

\* str.upper() on one character (only a..f occur in lower case here)
UpperChar(c) ==
    IF \E k \in 1..Len(LowerChars) : LowerChars[k] = c
    THEN UpperChars[CHOOSE k \in 1..Len(LowerChars) : LowerChars[k] = c]
    ELSE c

\* str.upper()
Upper(s) == [k \in 1..Len(s) |-> UpperChar(s[k])]

\* s[:n]
Prefix(s, n) == IF Len(s) <= n THEN s ELSE SubSeq(s, 1, n)

(* ---------------------------- enrichment -------------------------------- *)

\* The modelled segment is static: what `arp -n <ip>` prints for each host.
\* A host without an entry (<<>>), a randomized address, a VMware guest, an
\* address whose prefix is QEMU/KVM's and locally administered, and an
\* address of no known vendor.
ArpTable ==
    << <<>>,
       <<"d","a",":","a","1",":","1","9",":","0","0",":","0","0",":","0","2">>,
       <<"0","0",":","5","0",":","5","6",":","0","0",":","0","0",":","0","3">>,
       <<"5","2",":","5","4",":","0","0",":","0","0",":","0","0",":","0","4">>,
       <<"a","c",":","d","e",":","4","8",":","0","0",":","0","0",":","0","5">> >>

ArpEntry(ip) == ArpTable[((ip - 1) % Len(ArpTable)) + 1]

\* get_mac_address: the neighbour-table entry upper-cased, or "Unknown" when
\* the table has no entry for the address
get_mac_address(ip) ==
    IF ArpEntry(ip) = <<>> THEN Unknown ELSE Upper(ArpEntry(ip))

\* the vendors dict, restricted to the prefixes the modelled segment uses
vendors ==
    << [prefix |-> <<"0","0",":","5","0",":","5","6">>, name |-> VMware],
       [prefix |-> <<"5","2",":","5","4",":","0","0">>, name |-> QemuKvm] >>

\* vendors.get(mac_prefix, "Unknown Vendor")
VendorsGet(p) ==
    IF \E k \in 1..Len(vendors) : vendors[k].prefix = p
    THEN vendors[CHOOSE k \in 1..Len(vendors) : vendors[k].prefix = p].name
    ELSE UnknownVendor

LocallyAdministered == {"2", "6", "A", "E"}

\* (mutant) the vendor table is consulted before the randomized-address test
get_vendor_from_mac_TableFirst(mac) ==
    IF mac = Unknown THEN Unknown
    ELSE IF VendorsGet(Upper(Prefix(mac, 8))) # UnknownVendor
         THEN VendorsGet(Upper(Prefix(mac, 8)))
         ELSE IF Len(mac) >= 2 /\ UpperChar(mac[2]) \in LocallyAdministered
              THEN PrivateMAC
              ELSE UnknownVendor

get_vendor_from_mac(mac) ==
    IF mac = Unknown THEN Unknown
    ELSE IF Len(mac) >= 2 /\ UpperChar(mac[2]) \in LocallyAdministered
         THEN PrivateMAC
         ELSE VendorsGet(Upper(Prefix(mac, 8)))

is_private_mac(mac) ==
    IF mac = Unknown \/ Len(mac) < 2 THEN FALSE
    ELSE UpperChar(mac[2]) \in LocallyAdministered

\* what the resolvers of the static segment answer: every second host has
\* a name, the others resolve to nothing
Resolves(ip) == ip % 2 = 0

\* arp_hostnames.get(ip) or get_hostname(ip): a name, or the sentinel
get_hostname(ip) ==
    IF Resolves(ip) THEN <<"h","o","s","t","-">> \o <<ToString(ip)>> ELSE Unknown

(* ------------------------------- state ---------------------------------- *)

VARIABLES
    pc,               \* position of the main thread
    local_ip,         \* get_local_ip(): a host octet, or NoIp
    discovered_hosts, \* the set discovery accumulates
    arp_hosts,        \* first neighbour-table read
    nmap_hosts,       \* nmap_discover()
    final_arp_hosts,  \* second neighbour-table read
    fut,              \* the pool's futures, one per address
    sorted_hosts,     \* discovered_hosts once rebound to the sorted list
    scan_results,     \* the list of host records
    known_devices,    \* monitor: insertion-ordered dict ip -> record
    stop_monitoring,  \* monitor: the flag the SIGINT handler sets
    alive_hosts,      \* active_network_scan: its accumulating set
    current_ips,      \* monitor: what active_network_scan returned
    known_ips,        \* monitor: the key snapshot of the cycle
    todo_ips,         \* monitor: addresses the running for-loop has not visited
    events,           \* monitor: the join/leave banners printed this cycle
    sleep_tick,       \* monitor: ticks slept in the interruptible sleep
    mon_error,        \* monitor: an exception reached the except clause
    sigint_handler,   \* the handler the process has installed for SIGINT
    old_handler,      \* monitor: the handler signal.signal() returned
    ds_pc,            \* deep scan: position in the loop body
    ds_device,        \* deep scan: the record being scanned
    host_ports,       \* deep scan: the ports the host accepts connections on
    open_ports,       \* deep scan: the list the port loop builds
    device_type,      \* deep scan: the classification
    wol_pc,           \* Wake-on-LAN: position in wake_on_lan_menu
    mac_to_wake,      \* Wake-on-LAN: the address as typed
    mac_clean,        \* Wake-on-LAN: the address without separators
    wol_report,       \* Wake-on-LAN: the message printed
    datagrams,        \* Wake-on-LAN: the datagrams handed to the network
    fn_pc,            \* a helper under examination: "idle", "called", "returned"
    fn_args,          \* its arguments and what its environment answers
    fn_ret,           \* what it returned, or what it has built so far
    lookup_pc,        \* online lookup: "idle", "loop", "done"
    lookup_idx,       \* online lookup: position of the for loop in scan_results
    http_log          \* online lookup: the HTTP queries and the waits, in order

discVars == <<local_ip, discovered_hosts, arp_hosts, nmap_hosts,
              final_arp_hosts, sorted_hosts>>
sigVars == <<sigint_handler, old_handler>>
monVars == <<known_devices, stop_monitoring, alive_hosts, current_ips,
             known_ips, todo_ips, events, sleep_tick, mon_error, sigVars>>

deepVars == <<ds_pc, ds_device, host_ports, open_ports, device_type>>

\* the state of the options that are not running
wolVars == <<wol_pc, mac_to_wake, mac_clean, wol_report, datagrams>>

fnVars == <<fn_pc, fn_args, fn_ret>>

lookupVars == <<lookup_pc, lookup_idx, http_log>>

toolVars == <<deepVars, wolVars, fnVars, lookupVars>>

(* ------------------------------ helpers --------------------------------- *)

Range(s) == {s[k] : k \in 1..Len(s)}

Min(S) == CHOOSE x \in S : \A y \in S : x <= y

\* sorted(list(S), key=lambda x: [int(p) for p in x.split('.')])
RECURSIVE SortedList(_)
SortedList(S) ==
    IF S = {} THEN <<>> ELSE <<Min(S)>> \o SortedList(S \ {Min(S)})

\* the futures dict before submission, and right after it
NoFutures == [i \in Addrs |-> [st |-> "none", res |-> FALSE]]
Submitted == [i \in Addrs |-> [st |-> "pending", res |-> FALSE]]

AllYielded == \A i \in Addrs : fut[i].st = "yielded"
AllDone == \A i \in Addrs : fut[i].st \in {"done", "yielded"}

\* the addresses whose future returned an address rather than None
Positive == {i \in Addrs : fut[i].st \in {"done", "yielded"} /\ fut[i].res}

\* the record network_scanner stores for one discovered address
HostRecord(ip, local) ==
    [ip |-> ip,
     mac |-> get_mac_address(ip),
     hostname |-> get_hostname(ip),
     vendor |-> get_vendor_from_mac(get_mac_address(ip)),
     is_local |-> (ip = local),
     private_mac |-> is_private_mac(get_mac_address(ip))]

\* d.get('is_local')
GetIsLocal(d) == IF "is_local" \in DOMAIN d THEN d.is_local ELSE FALSE

Ips(recs) == {recs[k].ip : k \in 1..Len(recs)}

(* ------------------------------ dicts ----------------------------------- *)
\* A dict is a function on its key set.  The order in which a dict or a set
\* is iterated changes no field and no membership; lists made from them
\* are taken in ascending key order.

EmptyDict == [k \in {} |-> 0]

DictKeys(d) == DOMAIN d

\* d[k] = v
DictSet(d, k, v) == [j \in DOMAIN d \cup {k} |-> IF j = k THEN v ELSE d[j]]

\* del d[k]
DictDel(d, k) == [j \in DOMAIN d \ {k} |-> d[j]]

\* list(d.values())
DictValues(d) == LET keys == SortedList(DOMAIN d)
                 IN [j \in 1..Len(keys) |-> d[keys[j]]]

\* the banners printed in one cycle, counted by kind and address
EventKinds == {"joined", "left"}
NoEvents == [e \in EventKinds \X Addrs |-> 0]
Emit(ev, kind, ip) == [ev EXCEPT ![<<kind, ip>>] = @ + 1]

\* {d['ip']: d for d in devices}
RECURSIVE DictFromList(_)
DictFromList(devices) ==
    IF devices = <<>> THEN EmptyDict
    ELSE LET front == SubSeq(devices, 1, Len(devices) - 1)
             last == devices[Len(devices)]
         IN DictSet(DictFromList(front), last.ip, last)

\* a.update(b) on two records
DictUpdate(a, b) ==
    [f \in DOMAIN a \cup DOMAIN b |-> IF f \in DOMAIN b THEN b[f] ELSE a[f]]

(* ----------------------------- discovery -------------------------------- *)

DiscInit ==
    /\ local_ip = NoIp
    /\ discovered_hosts = {}
    /\ arp_hosts = {}
    /\ nmap_hosts = {}
    /\ final_arp_hosts = {}
    /\ sorted_hosts = <<>>

MonIdle ==
    /\ known_devices = EmptyDict
    /\ stop_monitoring = FALSE
    /\ alive_hosts = {}
    /\ current_ips = {}
    /\ known_ips = {}
    /\ todo_ips = {}
    /\ events = NoEvents
    /\ sleep_tick = 0
    /\ mon_error = FALSE
    /\ sigint_handler = "default_int_handler"
    /\ old_handler = "none"

\* no deep scan is running
DeepIdle ==
    /\ ds_pc = "idle"
    /\ ds_device = HostRecord(1, 1)
    /\ host_ports = {}
    /\ open_ports = <<>>
    /\ device_type = ""

\* no Wake-on-LAN is running
WolIdle ==
    /\ wol_pc = "idle"
    /\ mac_to_wake = <<>>
    /\ mac_clean = <<>>
    /\ wol_report = ""
    /\ datagrams = <<>>

\* no online lookup is running
LookupIdle ==
    /\ lookup_pc = "idle"
    /\ lookup_idx = 1
    /\ http_log = <<>>

\* no helper is examined
FnIdle ==
    /\ fn_pc = "idle"
    /\ fn_args = <<>>
    /\ fn_ret = <<>>

Init ==
    /\ pc = "start"
    /\ DiscInit
    /\ fut = NoFutures
    /\ scan_results = <<>>
    /\ MonIdle
    /\ LookupIdle
    /\ DeepIdle
    /\ WolIdle
    /\ FnIdle

\* local_ip = get_local_ip(); without it the scanner returns at once
GetLocalIp ==
    /\ pc = "start"
    /\ \E ip \in Addrs \cup {NoIp} :
          /\ local_ip' = ip
          /\ pc' = IF ip = NoIp THEN "exit" ELSE "phase1"
    /\ UNCHANGED <<discovered_hosts, arp_hosts, nmap_hosts, final_arp_hosts,
                   sorted_hosts, fut, scan_results, monVars>>
    /\ UNCHANGED toolVars

\* Phase 1: the neighbour table as it stands (any set, empty on failure)
ArpPhase ==
    /\ pc = "phase1"
    /\ \E hosts \in SUBSET Addrs :
          /\ arp_hosts' = hosts
          /\ discovered_hosts' = discovered_hosts \cup hosts
    /\ pc' = "phase2"
    /\ UNCHANGED <<local_ip, nmap_hosts, final_arp_hosts, sorted_hosts, fut,
                   scan_results, monVars>>
    /\ UNCHANGED toolVars

\* Phase 2: nmap_discover() (empty when nmap is missing or fails), then the
\* submission of one scan_ip task per address
NmapPhase ==
    /\ pc = "phase2"
    /\ \E hosts \in SUBSET Addrs :
          /\ nmap_hosts' = hosts
          /\ discovered_hosts' =
                IF hosts # {} THEN discovered_hosts \cup hosts
                ELSE discovered_hosts
    /\ fut' = Submitted
    /\ pc' = "phase3"
    /\ UNCHANGED <<local_ip, arp_hosts, final_arp_hosts, sorted_hosts,
                   scan_results, monVars>>
    /\ UNCHANGED toolVars

\* what scan_ip(i) returns: None for an address already discovered, else
\* whether ping, arping or a TCP connect answered (alive)
scan_ip(i, alive) == IF i \in discovered_hosts THEN FALSE ELSE alive

\* a pool worker runs scan_ip(i) to completion
ScanIp(i) ==
    /\ pc = "phase3"
    /\ fut[i].st = "pending"
    /\ \E alive \in BOOLEAN :
          fut' = [fut EXCEPT ![i] = [st |-> "done", res |-> scan_ip(i, alive)]]
    /\ UNCHANGED <<pc, discVars, scan_results, monVars>>
    /\ UNCHANGED toolVars

\* (mutant) the result is assigned to the set instead of added to it
AddResult_Assign(hosts, i, res) == IF res THEN {i} ELSE hosts

\* the set after the main thread handled one future's result
AddResult(hosts, i, res) == IF res THEN hosts \cup {i} ELSE hosts

\* the main thread takes one completed future from as_completed
CollectResult(i) ==
    /\ pc = "phase3"
    /\ fut[i].st = "done"
    /\ fut' = [fut EXCEPT ![i].st = "yielded"]
    /\ discovered_hosts' = AddResult(discovered_hosts, i, fut[i].res)
    /\ UNCHANGED <<pc, local_ip, arp_hosts, nmap_hosts, final_arp_hosts,
                   sorted_hosts, scan_results, monVars>>
    /\ UNCHANGED toolVars

\* (mutant) the second read replaces the set instead of being merged into it
MergeFinalArp_Replace(hosts, final) ==
    IF final \ hosts # {} THEN final ELSE hosts

\* discovered_hosts after the second neighbour-table read
MergeFinalArp(hosts, final) ==
    IF final \ hosts # {} THEN hosts \cup final ELSE hosts

\* the pool is left, the neighbour table is read once more, the set is
\* sorted; an empty result ends the scanner
FinalArpAndSort ==
    /\ pc = "phase3"
    /\ AllYielded
    /\ \E hosts \in SUBSET Addrs :
          /\ final_arp_hosts' = hosts
          /\ discovered_hosts' = MergeFinalArp(discovered_hosts, hosts)
    /\ sorted_hosts' = SortedList(discovered_hosts')
    /\ pc' = IF discovered_hosts' = {} THEN "exit" ELSE "store"
    /\ UNCHANGED <<local_ip, arp_hosts, nmap_hosts, fut, scan_results, monVars>>
    /\ UNCHANGED toolVars

\* for ip in discovered_hosts: scan_results.append({...})
StoreRecords(hosts, local) == [k \in 1..Len(hosts) |-> HostRecord(hosts[k], local)]

\* scan_results: one record per address of the sorted list.  The phase
\* locals are dead from here on and are dropped.
StoreResults ==
    /\ pc = "store"
    /\ scan_results' = StoreRecords(sorted_hosts, local_ip)
    /\ pc' = "menu"
    /\ discovered_hosts' = {}
    /\ arp_hosts' = {}
    /\ nmap_hosts' = {}
    /\ final_arp_hosts' = {}
    /\ sorted_hosts' = <<>>
    /\ fut' = NoFutures
    /\ UNCHANGED <<local_ip, monVars>>
    /\ UNCHANGED toolVars

(* ------------------------ the advanced-options menu --------------------- *)

\* choice '0': back to the main menu
MenuExit ==
    /\ pc = "menu"
    /\ pc' = "exit"
    /\ UNCHANGED <<discVars, fut, scan_results, monVars>>
    /\ UNCHANGED toolVars

\* choice '6': return network_scanner()
MenuRescan ==
    /\ pc = "menu"
    /\ pc' = "start"
    /\ local_ip' = NoIp
    /\ scan_results' = <<>>
    /\ UNCHANGED <<discovered_hosts, arp_hosts, nmap_hosts, final_arp_hosts,
                   sorted_hosts, fut, monVars>>
    /\ UNCHANGED toolVars

(* ------------------------------ monitor --------------------------------- *)

\* the half-second ticks of the interruptible sleep
SleepTicks == 10

MonitorPcs == {"mon_while", "mon_check", "as_nmap", "as_pool", "as_pool_exit",
               "as_pool_raise", "as_arp", "mon_scanned", "mon_new", "mon_gone",
               "mon_sleep", "mon_tick", "mon_except", "mon_finally"}

\* choice '2': monitor_network(...) is entered
MenuMonitor ==
    /\ pc = "menu"
    /\ known_devices' = DictFromList(scan_results)
    /\ stop_monitoring' = FALSE
    /\ old_handler' = sigint_handler
    /\ sigint_handler' = "signal_handler"
    /\ pc' = "mon_while"
    /\ UNCHANGED <<discVars, fut, scan_results, alive_hosts, current_ips,
                   known_ips, todo_ips, events, sleep_tick, mon_error>>
    /\ UNCHANGED toolVars

\* signal_handler: SIGINT arrives while the monitor runs
Interrupt ==
    /\ pc \in MonitorPcs
    /\ sigint_handler = "signal_handler"
    /\ ~stop_monitoring
    /\ stop_monitoring' = TRUE
    /\ UNCHANGED <<pc, discVars, fut, scan_results, known_devices, alive_hosts,
                   current_ips, known_ips, todo_ips, events, sleep_tick, mon_error,
                   sigVars>>
    /\ UNCHANGED toolVars

\* (mutant) while True: only the breaks inside the body end the loop
MonWhile_Forever ==
    /\ pc = "mon_while"
    /\ pc' = "mon_check"
    /\ UNCHANGED <<discVars, fut, scan_results, monVars>>
    /\ UNCHANGED toolVars

\* while not stop_monitoring: a new cycle begins
MonWhile ==
    /\ pc = "mon_while"
    /\ pc' = IF stop_monitoring THEN "mon_finally" ELSE "mon_check"
    /\ UNCHANGED <<discVars, fut, scan_results, monVars>>
    /\ UNCHANGED toolVars

\* if stop_monitoring: break; else active_network_scan() is called
MonCheck ==
    /\ pc = "mon_check"
    /\ pc' = IF stop_monitoring THEN "mon_finally" ELSE "as_nmap"
    /\ UNCHANGED <<discVars, fut, scan_results, monVars>>
    /\ UNCHANGED toolVars

\* the nmap pass: a non-empty result is returned at once; a failure or an
\* empty result falls back to the threaded scan
ActiveScanNmap ==
    /\ pc = "as_nmap"
    /\ \E hosts \in SUBSET Addrs :
          IF hosts # {}
          THEN /\ current_ips' = hosts
               /\ pc' = "mon_scanned"
               /\ fut' = fut
          ELSE /\ current_ips' = current_ips
               /\ pc' = "as_pool"
               /\ fut' = Submitted
    /\ UNCHANGED <<discVars, scan_results, known_devices, stop_monitoring,
                   alive_hosts, known_ips, todo_ips, events, sleep_tick,
                   mon_error,
                   sigVars>>
    /\ UNCHANGED toolVars

\* is_host_alive(ip): False once the stop flag is set, else whether a TCP
\* connect or the neighbour table answered (alive)
is_host_alive(stopped, alive) == IF stopped THEN FALSE ELSE alive

\* a pool worker runs check_ip(ip) to completion
CheckIp(i) ==
    /\ pc \in {"as_pool", "as_pool_exit", "as_pool_raise"}
    /\ fut[i].st = "pending"
    /\ \E alive \in BOOLEAN :
          fut' = [fut EXCEPT ![i] =
                     [st |-> "done", res |-> is_host_alive(stop_monitoring, alive)]]
    /\ UNCHANGED <<pc, discVars, scan_results, monVars>>
    /\ UNCHANGED toolVars

\* the body of the as_completed loop for one completed future
MonCollect(i) ==
    /\ pc = "as_pool"
    /\ fut[i].st = "done"
    /\ fut' = [fut EXCEPT ![i].st = "yielded"]
    /\ IF stop_monitoring
       THEN /\ pc' = "as_pool_exit"
            /\ alive_hosts' = alive_hosts
       ELSE /\ pc' = pc
            /\ alive_hosts' = AddResult(alive_hosts, i, fut[i].res)
    /\ UNCHANGED <<discVars, scan_results, known_devices, stop_monitoring,
                   current_ips, known_ips, todo_ips, events, sleep_tick,
                   mon_error,
                   sigVars>>
    /\ UNCHANGED toolVars

\* as_completed is exhausted
MonPoolDone ==
    /\ pc = "as_pool"
    /\ AllYielded
    /\ pc' = "as_pool_exit"
    /\ UNCHANGED <<discVars, fut, scan_results, monVars>>
    /\ UNCHANGED toolVars

\* as_completed(futures, timeout=15) raises TimeoutError: a worker has not
\* finished in time
AsCompletedTimeout ==
    /\ pc = "as_pool"
    /\ \E i \in Addrs : fut[i].st = "pending"
    /\ pc' = "as_pool_raise"
    /\ UNCHANGED <<discVars, fut, scan_results, monVars>>
    /\ UNCHANGED toolVars

\* where control goes when the with-block of the pool is left: on to the
\* neighbour-table reads, or, with an exception in flight, out of
\* active_network_scan and of the while loop to the except clause
AfterPool(at) == IF at = "as_pool_raise" THEN "mon_except" ELSE "as_arp"

\* (mutant) shutdown(wait=False): the with-block is left at once
PoolExit_NoWait ==
    /\ pc \in {"as_pool_exit", "as_pool_raise"}
    /\ pc' = AfterPool(pc)
    /\ fut' = NoFutures
    /\ alive_hosts' = IF pc = "as_pool_raise" THEN {} ELSE alive_hosts
    /\ UNCHANGED <<discVars, scan_results, known_devices, stop_monitoring,
                   current_ips, known_ips, todo_ips, events, sleep_tick,
                   mon_error,
                   sigVars>>
    /\ UNCHANGED toolVars

\* leaving the with-block: shutdown(wait=True) returns once every worker is
\* done; the futures are dead from here on and are dropped
PoolExit ==
    /\ pc \in {"as_pool_exit", "as_pool_raise"}
    /\ AllDone
    /\ pc' = AfterPool(pc)
    /\ fut' = NoFutures
    /\ alive_hosts' = IF pc = "as_pool_raise" THEN {} ELSE alive_hosts
    /\ UNCHANGED <<discVars, scan_results, known_devices, stop_monitoring,
                   current_ips, known_ips, todo_ips, events, sleep_tick,
                   mon_error,
                   sigVars>>
    /\ UNCHANGED toolVars

\* arp -n and ip neigh are read and active_network_scan returns
ActiveScanArp ==
    /\ pc = "as_arp"
    /\ \E arp \in SUBSET Addrs : \E neigh \in SUBSET Addrs :
          current_ips' = alive_hosts \cup arp \cup neigh
    /\ alive_hosts' = {}
    /\ pc' = "mon_scanned"
    /\ UNCHANGED <<discVars, fut, scan_results, known_devices, stop_monitoring,
                   known_ips, todo_ips, events, sleep_tick, mon_error,
                   sigVars>>
    /\ UNCHANGED toolVars

\* (mutant) every scanned address is taken as new
NewIps_All(current, known) == current

\* new_ips = current_ips - known_ips
NewIps(current, known) == current \ known

\* (mutant) the flag is not tested after the scan
MonScanned_NoCheck ==
    /\ pc = "mon_scanned"
    /\ pc' = "mon_new"
    /\ known_ips' = DictKeys(known_devices)
    /\ todo_ips' = NewIps(current_ips, DictKeys(known_devices))
    /\ UNCHANGED <<discVars, fut, scan_results, known_devices, stop_monitoring,
                   alive_hosts, current_ips, events, sleep_tick, mon_error,
                   sigVars>>
    /\ UNCHANGED toolVars

\* if stop_monitoring: break; else the key snapshot and new_ips
MonScanned ==
    /\ pc = "mon_scanned"
    /\ IF stop_monitoring
       THEN /\ pc' = "mon_finally"
            /\ UNCHANGED <<known_ips, todo_ips>>
       ELSE /\ pc' = "mon_new"
            /\ known_ips' = DictKeys(known_devices)
            /\ todo_ips' = NewIps(current_ips, DictKeys(known_devices))
    /\ UNCHANGED <<discVars, fut, scan_results, known_devices, stop_monitoring,
                   alive_hosts, current_ips, events, sleep_tick, mon_error,
                   sigVars>>
    /\ UNCHANGED toolVars

\* the record the monitor stores for a device that joined
JoinedRecord(ip) ==
    [ip |-> ip,
     mac |-> get_mac_address(ip),
     hostname |-> get_hostname(ip),
     vendor |-> get_vendor_from_mac(get_mac_address(ip)),
     private_mac |-> is_private_mac(get_mac_address(ip))]

\* (mutant) the local address is not exempted
GoneIps_NoExempt(known, current, local) == known \ current

\* gone_ips = known_ips - current_ips - {local_ip}
GoneIps(known, current, local) == (known \ current) \ {local}

\* one iteration of `for ip in new_ips`, or its end
MonJoin ==
    /\ pc = "mon_new"
    /\ IF todo_ips = {} \/ stop_monitoring
       THEN /\ pc' = "mon_gone"
            /\ todo_ips' = GoneIps(known_ips, current_ips, local_ip)
            /\ UNCHANGED <<known_devices, events>>
       ELSE \E ip \in todo_ips :
               /\ events' = Emit(events, "joined", ip)
               /\ known_devices' = DictSet(known_devices, ip, JoinedRecord(ip))
               /\ todo_ips' = todo_ips \ {ip}
               /\ pc' = pc
    /\ UNCHANGED <<discVars, fut, scan_results, stop_monitoring, alive_hosts,
                   current_ips, known_ips, sleep_tick, mon_error,
                   sigVars>>
    /\ UNCHANGED toolVars

\* one iteration of `for ip in list(gone_ips)`, or its end
MonLeave ==
    /\ pc = "mon_gone"
    /\ IF todo_ips = {} \/ stop_monitoring
       THEN /\ pc' = "mon_sleep"
            /\ todo_ips' = {}
            /\ sleep_tick' = 0
            /\ UNCHANGED <<known_devices, events>>
       ELSE \E ip \in todo_ips :
               /\ events' = Emit(events, "left", ip)
               /\ known_devices' = DictDel(known_devices, ip)
               /\ todo_ips' = todo_ips \ {ip}
               /\ UNCHANGED <<pc, sleep_tick>>
    /\ UNCHANGED <<discVars, fut, scan_results, stop_monitoring, alive_hosts,
                   current_ips, known_ips, mon_error,
                   sigVars>>
    /\ UNCHANGED toolVars

\* (mutant) one uninterruptible sleep: the flag is not looked at
MonSleep_NoCheck ==
    /\ pc = "mon_sleep"
    /\ IF sleep_tick = SleepTicks
       THEN /\ pc' = "mon_while"
            /\ sleep_tick' = 0
       ELSE /\ pc' = "mon_tick"
            /\ sleep_tick' = sleep_tick
    /\ current_ips' = {}
    /\ known_ips' = {}
    /\ events' = NoEvents
    /\ UNCHANGED <<discVars, fut, scan_results, known_devices, stop_monitoring,
                   alive_hosts, todo_ips, mon_error,
                   sigVars>>
    /\ UNCHANGED toolVars

\* the interruptible sleep, `for _ in range(10): if stop_monitoring: break`:
\* the loop ends, or time.sleep(0.5) is entered.  The locals of the cycle
\* are dead once the diffing is over and are dropped.
MonSleep ==
    /\ pc = "mon_sleep"
    /\ IF sleep_tick = SleepTicks \/ stop_monitoring
       THEN /\ pc' = "mon_while"
            /\ sleep_tick' = 0
       ELSE /\ pc' = "mon_tick"
            /\ sleep_tick' = sleep_tick
    /\ current_ips' = {}
    /\ known_ips' = {}
    /\ events' = NoEvents
    /\ UNCHANGED <<discVars, fut, scan_results, known_devices, stop_monitoring,
                   alive_hosts, todo_ips, mon_error,
                   sigVars>>
    /\ UNCHANGED toolVars

\* time.sleep(0.5) returns: a signal handled meanwhile does not shorten it
MonTick ==
    /\ pc = "mon_tick"
    /\ sleep_tick' = sleep_tick + 1
    /\ pc' = "mon_sleep"
    /\ UNCHANGED <<discVars, fut, scan_results, known_devices, stop_monitoring,
                   alive_hosts, current_ips, known_ips, todo_ips, events,
                   mon_error,
                   sigVars>>
    /\ UNCHANGED toolVars

\* except Exception as e: print(Error)
MonExcept ==
    /\ pc = "mon_except"
    /\ mon_error' = TRUE
    /\ pc' = "mon_finally"
    /\ UNCHANGED <<discVars, fut, scan_results, known_devices, stop_monitoring,
                   alive_hosts, current_ips, known_ips, todo_ips, events,
                   sleep_tick,
                   sigVars>>
    /\ UNCHANGED toolVars

\* (mutant) every returned device is appended
MergeDevice_Append(results, device, existing_ips) == Append(results, device)

\* the body of `for device in updated_results`: a device not yet listed is
\* appended, the first record of a listed one is updated
MergeDevice(results, device, existing_ips) ==
    IF device.ip \notin existing_ips
    THEN Append(results, device)
    ELSE LET i == CHOOSE j \in 1..Len(results) :
                     /\ results[j].ip = device.ip
                     /\ \A h \in 1..(j - 1) : results[h].ip # device.ip
         IN [results EXCEPT ![i] = DictUpdate(results[i], device)]

\* for device in updated_results
RECURSIVE MergeLoop(_, _, _)
MergeLoop(results, updated, existing_ips) ==
    IF updated = <<>> THEN results
    ELSE MergeLoop(MergeDevice(results, Head(updated), existing_ips),
                   Tail(updated), existing_ips)

\* scan_results[:] = [d for d in scan_results if d['ip'] in updated_ips or d.get('is_local')]
RemoveLeft(results, updated_ips) ==
    SelectSeq(results, LAMBDA d : d.ip \in updated_ips \/ GetIsLocal(d))

\* network_scanner's handling of what monitor_network returned
MergeResults(results, updated) ==
    IF updated = <<>> THEN results
    ELSE RemoveLeft(MergeLoop(results, updated, Ips(results)), Ips(updated))

\* (mutant) no finally clause: the monitor's handler stays installed
Finally_NotRestored(handler, old) == handler

\* finally: signal.signal(signal.SIGINT, old_handler)
Finally(handler, old) == old

\* finally: the handler is restored; monitor_network returns the values of
\* known_devices and network_scanner merges them into scan_results
MonReturnMerge ==
    /\ pc = "mon_finally"
    /\ scan_results' = MergeResults(scan_results, DictValues(known_devices))
    /\ pc' = "menu"
    /\ fut' = NoFutures
    /\ known_devices' = EmptyDict
    /\ stop_monitoring' = FALSE
    /\ alive_hosts' = {}
    /\ current_ips' = {}
    /\ known_ips' = {}
    /\ todo_ips' = {}
    /\ events' = NoEvents
    /\ sleep_tick' = 0
    /\ mon_error' = FALSE
    /\ sigint_handler' = Finally(sigint_handler, old_handler)
    /\ old_handler' = "none"
    /\ UNCHANGED discVars
    /\ UNCHANGED toolVars

(* --------------------------- specification ------------------------------ *)

scanVars == <<pc, discVars, fut, scan_results, monVars>>

vars == <<scanVars, toolVars>>

\* what the deep scan, and what Wake-on-LAN, leave alone
exceptDeep == <<scanVars, wolVars, fnVars, lookupVars>>
exceptWol == <<scanVars, deepVars, fnVars, lookupVars>>

\* what the examination of a helper leaves alone
exceptFn == <<scanVars, deepVars, wolVars, lookupVars>>

Next ==
    \/ GetLocalIp
    \/ ArpPhase
    \/ NmapPhase
    \/ \E i \in Addrs : ScanIp(i)
    \/ \E i \in Addrs : CollectResult(i)
    \/ FinalArpAndSort
    \/ StoreResults
    \/ MenuExit
    \/ MenuRescan
    \/ MenuMonitor
    \/ Interrupt
    \/ MonWhile
    \/ MonCheck
    \/ ActiveScanNmap
    \/ \E i \in Addrs : CheckIp(i)
    \/ \E i \in Addrs : MonCollect(i)
    \/ MonPoolDone
    \/ AsCompletedTimeout
    \/ PoolExit
    \/ ActiveScanArp
    \/ MonScanned
    \/ MonJoin
    \/ MonLeave
    \/ MonSleep
    \/ MonTick
    \/ MonExcept
    \/ MonReturnMerge

Spec == Init /\ [][Next]_vars

\* the steps monitor_network and its workers take by themselves: every
\* blocking call (probe, subprocess, sleep tick) returns within its timeout
MonitorStep ==
    \/ MonWhile
    \/ MonCheck
    \/ ActiveScanNmap
    \/ \E i \in Addrs : CheckIp(i)
    \/ \E i \in Addrs : MonCollect(i)
    \/ MonPoolDone
    \/ PoolExit
    \/ ActiveScanArp
    \/ MonScanned
    \/ MonJoin
    \/ MonLeave
    \/ MonSleep
    \/ MonTick
    \/ MonExcept
    \/ MonReturnMerge

\* monitor_network has just been entered from the menu, with the results of
\* a discovery on which address 1 is the local one
MonitorInit ==
    /\ pc = "mon_while"
    /\ local_ip = 1
    /\ discovered_hosts = {}
    /\ arp_hosts = {}
    /\ nmap_hosts = {}
    /\ final_arp_hosts = {}
    /\ sorted_hosts = <<>>
    /\ fut = NoFutures
    /\ \E hosts \in SUBSET Addrs \ {{}} :
          /\ scan_results = StoreRecords(SortedList(hosts), 1)
          /\ known_devices = DictFromList(scan_results)
    /\ stop_monitoring = FALSE
    /\ alive_hosts = {}
    /\ current_ips = {}
    /\ known_ips = {}
    /\ todo_ips = {}
    /\ events = NoEvents
    /\ sleep_tick = 0
    /\ mon_error = FALSE
    /\ sigint_handler = "signal_handler"
    /\ old_handler = "default_int_handler"
    /\ LookupIdle
    /\ DeepIdle
    /\ WolIdle
    /\ FnIdle

MonitorNext == MonitorStep \/ Interrupt \/ AsCompletedTimeout

\* one run of the monitor, not starved, until it returns to the menu
SpecLive == MonitorInit /\ [][MonitorNext]_vars /\ WF_vars(MonitorStep)

(* ----------------------------- deep scan -------------------------------- *)

\* ports a modelled host accepts connections on, at most
MaxOpen == 3

\* device_signatures, in declaration order
device_signatures ==
    << [label |-> "Router/Gateway",  ports |-> <<80, 443, 53, 8080, 8443>>],
       [label |-> "Printer",         ports |-> <<9100, 515, 631, 80>>],
       [label |-> "NAS/File Server", ports |-> <<445, 139, 548, 2049, 5000>>],
       [label |-> "Smart TV",        ports |-> <<8008, 8443, 9080, 1925>>],
       [label |-> "Game Console",    ports |-> <<3074, 3478, 3479, 3480>>],
       [label |-> "IP Camera",       ports |-> <<554, 8554, 80, 8080>>],
       [label |-> "Web Server",      ports |-> <<80, 443, 8080, 8443>>],
       [label |-> "SSH Server",      ports |-> <<22>>],
       [label |-> "FTP Server",      ports |-> <<21>>],
       [label |-> "Database",        ports |-> <<3306, 5432, 27017, 6379>>],
       [label |-> "Mail Server",     ports |-> <<25, 587, 993, 995>>],
       [label |-> "IoT Device",      ports |-> <<1883, 8883, 5683>>] >>

\* the diagnostic ports added to the signature ports: RDP, VNC, Telnet
DiagnosticPorts == <<3389, 5900, 23>>

\* ports_to_scan: the signature ports and the diagnostic ports, sorted
ports_to_scan ==
    SortedList(UNION {Range(device_signatures[k].ports) :
                         k \in 1..Len(device_signatures)}
               \cup Range(DiagnosticPorts))

\* the sets of at most n scanned ports
RECURSIVE PortSets(_)
PortSets(n) ==
    IF n = 0 THEN {{}}
    ELSE LET smaller == PortSets(n - 1)
         IN smaller \cup {S \cup {p} : S \in smaller, p \in Range(ports_to_scan)}

\* the port loop: the scanned ports that accept a connection, in scan order
ScanPorts(accepting) == SelectSeq(ports_to_scan, LAMBDA p : p \in accepting)

\* score = sum(1 for p in signature_ports if p in open_ports)
Score(signature_ports, open) ==
    Cardinality({k \in 1..Len(signature_ports) : signature_ports[k] \in Range(open)})

\* type_scores: the signatures scoring above zero, in declaration order
TypeScores(open) ==
    LET scored == [k \in 1..Len(device_signatures) |->
                     [dtype |-> device_signatures[k].label,
                      score |-> Score(device_signatures[k].ports, open)]]
    IN SelectSeq(scored, LAMBDA e : e.score > 0)

\* (mutant) a later entry replaces the best one on an equal score
RECURSIVE MaxByScore_Last(_, _)
MaxByScore_Last(best, rest) ==
    IF rest = <<>> THEN best
    ELSE MaxByScore_Last(IF Head(rest).score >= best.score THEN Head(rest) ELSE best,
                         Tail(rest))

\* max(type_scores, key=type_scores.get): the scan keeps the entry seen so
\* far and replaces it only by one of a greater score
RECURSIVE MaxByScore(_, _)
MaxByScore(best, rest) ==
    IF rest = <<>> THEN best
    ELSE MaxByScore(IF Head(rest).score > best.score THEN Head(rest) ELSE best,
                    Tail(rest))

\* (mutant) the fallback is taken whatever ports are open
Fallback_Always(open, private_mac) ==
    IF private_mac THEN "Mobile Device" ELSE "Stealth/Firewall"

\* the type of a device no signature matches: the initial "Unknown Device"
\* stays unless no port at all is open.  (The code's mobile label carries
\* a phone emoji before the words.)
Fallback(open, private_mac) ==
    IF open = <<>>
    THEN IF private_mac THEN "Mobile Device" ELSE "Stealth/Firewall"
    ELSE "Unknown Device"

\* the device type deep_scan_devices determines
Classify(open, private_mac) ==
    IF TypeScores(open) # <<>>
    THEN MaxByScore(Head(TypeScores(open)), Tail(TypeScores(open))).dtype
    ELSE Fallback(open, private_mac)

\* the hosts deep-scanned: one without an entry in the ARP table and one
\* with a randomized hardware address, either of which may be the local host
DeepHosts == {1, 2}

\* the option is entered with a record of the scan results and a host
\* accepting connections on some ports
DeepInit ==
    /\ pc = "menu"
    /\ local_ip \in DeepHosts
    /\ discovered_hosts = {}
    /\ arp_hosts = {}
    /\ nmap_hosts = {}
    /\ final_arp_hosts = {}
    /\ sorted_hosts = <<>>
    /\ fut = NoFutures
    /\ \E ip \in DeepHosts :
          /\ scan_results = StoreRecords(<<ip>>, local_ip)
          /\ ds_device = HostRecord(ip, local_ip)
    /\ MonIdle
    /\ LookupIdle
    /\ ds_pc = "device"
    /\ host_ports \in PortSets(MaxOpen)
    /\ open_ports = <<>>
    /\ device_type = ""
    /\ WolIdle
    /\ FnIdle

\* if device['is_local']: continue
DeepSkipLocal ==
    /\ ds_pc = "device"
    /\ ds_device.is_local
    /\ ds_pc' = "skipped"
    /\ UNCHANGED <<ds_device, host_ports, open_ports, device_type, exceptDeep>>

\* for port in ports_to_scan: connect_ex
DeepProbePorts ==
    /\ ds_pc = "device"
    /\ ~ds_device.is_local
    /\ open_ports' = ScanPorts(host_ports)
    /\ ds_pc' = "probed"
    /\ UNCHANGED <<ds_device, host_ports, device_type, exceptDeep>>

\* the scores, the type, and the two fields stored in the record
DeepClassify ==
    /\ ds_pc = "probed"
    /\ device_type' = Classify(open_ports, ds_device.private_mac)
    /\ ds_device' = DictUpdate(ds_device,
                               [device_type |-> device_type',
                                open_ports |-> open_ports])
    /\ ds_pc' = "classified"
    /\ UNCHANGED <<host_ports, open_ports, exceptDeep>>

DeepNext == DeepSkipLocal \/ DeepProbePorts \/ DeepClassify

SpecDeep == DeepInit /\ [][DeepNext]_vars

\* how many of a signature's ports the host has open
OpenCount(k) == Cardinality(Range(device_signatures[k].ports) \cap host_ports)

NoSignatureScores == \A k \in 1..Len(device_signatures) : OpenCount(k) = 0

(* ---------------------------- Wake-on-LAN ------------------------------- *)

\* the leading characters of a typed address that may be wrong
MaxTypoPos == 4

\* characters a typed address may lack or have in excess, at most
MaxExcess == 1

HexDigits == <<"0","1","2","3","4","5","6","7","8","9","A","B","C","D","E","F">>

IsHex(c) == \E k \in 1..Len(HexDigits) : HexDigits[k] = UpperChar(c)

\* the value of a hexadecimal digit
HexVal(c) == (CHOOSE k \in 1..Len(HexDigits) : HexDigits[k] = UpperChar(c)) - 1

IsSpace(c) == c = " "

\* str.strip()
RECURSIVE Strip(_)
Strip(str) ==
    IF str = <<>> THEN str
    ELSE IF IsSpace(Head(str)) THEN Strip(Tail(str))
    ELSE IF IsSpace(str[Len(str)]) THEN Strip(SubSeq(str, 1, Len(str) - 1))
    ELSE str

\* mac_to_wake.replace(':', '').replace('-', '').replace('.', '').upper()
Clean(str) == Upper(SelectSeq(str, LAMBDA c : c \notin {":", "-", "."}))

\* bytes.fromhex: whitespace is skipped before each byte, then two
\* hexadecimal digits must follow; anything else is a ValueError
RECURSIVE FromHex(_, _)
FromHex(str, acc) ==
    IF str = <<>> THEN [ok |-> TRUE, bytes |-> acc]
    ELSE IF IsSpace(Head(str)) THEN FromHex(Tail(str), acc)
    ELSE IF Len(str) >= 2 /\ IsHex(str[1]) /\ IsHex(str[2])
         THEN FromHex(Tail(Tail(str)),
                      Append(acc, 16 * HexVal(str[1]) + HexVal(str[2])))
         ELSE [ok |-> FALSE, bytes |-> <<>>]

\* n copies of a byte string
RECURSIVE Repeat(_, _)
Repeat(bytes, n) == IF n = 0 THEN <<>> ELSE bytes \o Repeat(bytes, n - 1)

\* (mutant) the synchronisation bytes are left out
MagicPacket_NoHeader(mac_bytes) == Repeat(mac_bytes, 16)

\* magic_packet = b'\xff' * 6 + mac_bytes * 16
MagicPacket(mac_bytes) == Repeat(<<255>>, 6) \o Repeat(mac_bytes, 16)

\* the hardware addresses typed: twelve hexadecimal digits
TypedMacs ==
    { <<"0","0","5","0","5","6","0","0","0","0","0","3">>,
      <<"d","a","a","1","1","9","F","F","0","e","0","2">> }

\* the digits written with a separator after every `group` digits
RECURSIVE Separated(_, _, _)
Separated(digits, sep, group) ==
    IF Len(digits) <= group THEN digits
    ELSE SubSeq(digits, 1, group) \o <<sep>>
         \o Separated(SubSeq(digits, group + 1, Len(digits)), sep, group)

\* the notations of an address: bare, aa:bb:.., aa-bb-.., aa.bb..., aabb.ccdd.eeff
Notations(digits) ==
    {digits, Separated(digits, ":", 2), Separated(digits, "-", 2),
     Separated(digits, ".", 2), Separated(digits, ".", 4)}

\* a notation cut short or extended by n characters
Resized(str, n) ==
    IF n < 0 THEN SubSeq(str, 1, Len(str) + n)
    ELSE str \o [k \in 1..n |-> "0"]

\* the wrong characters: a letter that is no hexadecimal digit, and a blank
WrongChars == {"G", " "}

\* what is typed in place of a character: the character itself, or a wrong one
TypedFor(c) == {c} \cup WrongChars

\* a string with any of its first n characters mistyped
RECURSIVE Mistyped(_, _)
Mistyped(str, n) ==
    IF n = 0 \/ str = <<>> THEN {str}
    ELSE {<<c>> \o rest : c \in TypedFor(Head(str)),
                          rest \in Mistyped(Tail(str), n - 1)}

\* what the user may type at the prompt: nothing, blanks, or an address
WolInputs ==
    {<<>>, <<" ", " ">>} \cup
    UNION { UNION { Mistyped(Resized(str, n), MaxTypoPos) :
                      n \in (0 - MaxExcess)..MaxExcess } :
            str \in UNION {Notations(digits) : digits \in TypedMacs} }

\* choice 'M': an address is typed at the prompt
WolInit ==
    /\ pc = "menu"
    /\ local_ip = 1
    /\ discovered_hosts = {}
    /\ arp_hosts = {}
    /\ nmap_hosts = {}
    /\ final_arp_hosts = {}
    /\ sorted_hosts = <<>>
    /\ fut = NoFutures
    /\ scan_results = StoreRecords(<<1, 2>>, 1)
    /\ MonIdle
    /\ LookupIdle
    /\ DeepIdle
    /\ wol_pc = "typed"
    /\ mac_to_wake \in {Strip(str) : str \in WolInputs}
    /\ mac_clean = <<>>
    /\ wol_report = ""
    /\ datagrams = <<>>
    /\ FnIdle

\* if not mac_to_wake: "No MAC address specified."
WolNoMac ==
    /\ wol_pc = "typed"
    /\ mac_to_wake = <<>>
    /\ wol_report' = "No MAC address specified."
    /\ wol_pc' = "done"
    /\ UNCHANGED <<mac_to_wake, mac_clean, datagrams, exceptWol>>

\* the address is cleaned; if len(mac_clean) != 12: "Invalid MAC address format."
WolClean ==
    /\ wol_pc = "typed"
    /\ mac_to_wake # <<>>
    /\ mac_clean' = Clean(mac_to_wake)
    /\ IF Len(mac_clean') # 12
       THEN /\ wol_report' = "Invalid MAC address format."
            /\ wol_pc' = "done"
       ELSE /\ wol_report' = wol_report
            /\ wol_pc' = "cleaned"
    /\ UNCHANGED <<mac_to_wake, datagrams, exceptWol>>

\* bytes.fromhex raises inside the try block
WolFromHexFails ==
    /\ wol_pc = "cleaned"
    /\ ~FromHex(mac_clean, <<>>).ok
    /\ wol_report' = "Error sending packet"
    /\ wol_pc' = "done"
    /\ UNCHANGED <<mac_to_wake, mac_clean, datagrams, exceptWol>>

\* the packet is built and sent to the broadcast address, port 9; the
\* socket calls may raise (delivered = FALSE)
WolSend ==
    /\ wol_pc = "cleaned"
    /\ FromHex(mac_clean, <<>>).ok
    /\ \E delivered \in BOOLEAN :
          IF delivered
          THEN /\ datagrams' =
                    Append(datagrams,
                           [host |-> "255.255.255.255", port |-> 9,
                            payload |-> MagicPacket(FromHex(mac_clean, <<>>).bytes)])
               /\ wol_report' = "Magic packet sent"
          ELSE /\ datagrams' = datagrams
               /\ wol_report' = "Error sending packet"
    /\ wol_pc' = "done"
    /\ UNCHANGED <<mac_to_wake, mac_clean, exceptWol>>

WolNext == WolNoMac \/ WolClean \/ WolFromHexFails \/ WolSend

SpecWol == WolInit /\ [][WolNext]_vars

\* the typed address without its separators
Digits(str) == SelectSeq(str, LAMBDA c : c \notin {":", "-", "."})

\* the typed address decodes to exactly 6 bytes: without its separators it
\* is twelve hexadecimal digits
DecodesTo6Bytes(str) ==
    /\ Len(Digits(str)) = 12
    /\ \A k \in 1..Len(Digits(str)) : IsHex(Digits(str)[k])

(* ------------------------ the discovery sources ------------------------ *)

\* how a source ends: it answers ("ok"), it answers with a non-zero exit
\* code or the file is absent ("failed"), or the call raises: the tool is
\* not installed, the timeout expires, the file cannot be read ("raises")
SourceStatus == {"ok", "failed", "raises"}

\* what a source does: how it ends and the addresses of the segment that
\* its output lists with a complete entry
SourceOutcomes == [status : SourceStatus, out : SUBSET Addrs]

\* one try block of get_arp_cache_hosts: the addresses are added when the
\* call returned with exit code 0; except: pass
ArpSource(hosts, o) == IF o.status = "ok" THEN hosts \cup o.out ELSE hosts

\* (mutant) one try block around the three reads: a read that raises ends
\* the function with what was gathered before it
get_arp_cache_hosts_OneTry(sources) ==
    IF sources[1].status = "raises" THEN {}
    ELSE IF sources[2].status = "raises" THEN ArpSource({}, sources[1])
    ELSE IF sources[3].status = "raises"
         THEN ArpSource(ArpSource({}, sources[1]), sources[2])
         ELSE ArpSource(ArpSource(ArpSource({}, sources[1]), sources[2]), sources[3])

\* get_arp_cache_hosts(): arp -a, arp -n and /proc/net/arp, each in a try
\* block of its own
get_arp_cache_hosts(sources) ==
    ArpSource(ArpSource(ArpSource({}, sources[1]), sources[2]), sources[3])

\* nmap_discover(): the hosts nmap reports when it exits with 0
nmap_discover(o) == IF o.status = "ok" THEN {} \cup o.out ELSE {}

\* discovered_hosts after phases 1 and 2
AfterPhase2(arp, nmap) ==
    LET after1 == {} \cup arp
    IN IF nmap # {} THEN after1 \cup nmap ELSE after1

\* discovery is about to read its sources, which end in any way
SourcesInit ==
    /\ pc = "phase1"
    /\ local_ip = 1
    /\ discovered_hosts = {}
    /\ arp_hosts = {}
    /\ nmap_hosts = {}
    /\ final_arp_hosts = {}
    /\ sorted_hosts = <<>>
    /\ fut = NoFutures
    /\ scan_results = <<>>
    /\ MonIdle
    /\ LookupIdle
    /\ DeepIdle
    /\ WolIdle
    /\ fn_pc = "called"
    /\ fn_args \in [arp : [1..3 -> SourceOutcomes], nmap : SourceOutcomes]
    /\ fn_ret = <<>>

\* phases 1 and 2 read the sources
ReadSources ==
    /\ fn_pc = "called"
    /\ fn_ret' =
          [arp_hosts |-> get_arp_cache_hosts(fn_args.arp),
           nmap_hosts |-> nmap_discover(fn_args.nmap),
           discovered_hosts |-> AfterPhase2(get_arp_cache_hosts(fn_args.arp),
                                            nmap_discover(fn_args.nmap))]
    /\ fn_pc' = "returned"
    /\ UNCHANGED <<fn_args, exceptFn>>

SpecSources == SourcesInit /\ [][ReadSources]_vars

\* the addresses listed by the neighbour-table sources that answered
ArpAnswered == {i \in Addrs : \E k \in 1..3 : /\ fn_args.arp[k].status = "ok"
                                              /\ i \in fn_args.arp[k].out}

\* the addresses listed by nmap, if it answered
NmapAnswered == {i \in Addrs : fn_args.nmap.status = "ok" /\ i \in fn_args.nmap.out}

(* --------------------------- liveness probes ---------------------------- *)

\* ports of common_ports and of quick_ports that are modelled (9 in the code)
MaxProbePorts == 2

\* how one test ends: it succeeds; it is answered negatively (no reply, a
\* timeout, a refused connection, a non-zero exit code); or it raises (the
\* tool is missing, permission is denied) and the except clause is taken
TestOutcomes == {"success", "negative", "raises"}

ProbePorts == 1..MaxProbePorts

\* ping_host: result.returncode == 0; except: return False
ping_host(o) == o = "success"

\* arping_host: exit code 0 or a reply in the output; except: return False
arping_host(o) == o = "success"

\* (mutant) the try block is around the loop: a connect that raises ends
\* the function although ports are left untried
RECURSIVE scan_host_socket_TryOutside(_, _)
scan_host_socket_TryOutside(ports, k) ==
    IF k > Len(ports) THEN [alive |-> FALSE, tried |-> {}]
    ELSE IF ports[k] = "success" THEN [alive |-> TRUE, tried |-> {<<"tcp", k>>}]
    ELSE IF ports[k] = "raises" THEN [alive |-> FALSE, tried |-> {<<"tcp", k>>}]
    ELSE LET rest == scan_host_socket_TryOutside(ports, k + 1)
         IN [alive |-> rest.alive, tried |-> {<<"tcp", k>>} \cup rest.tried]

\* scan_host_socket from port k on: True at the first port that accepts the
\* connection; a failing or raising connect goes on to the next port.
\* `tried` records the tests that were made.
RECURSIVE scan_host_socket(_, _)
scan_host_socket(ports, k) ==
    IF k > Len(ports) THEN [alive |-> FALSE, tried |-> {}]
    ELSE IF ports[k] = "success" THEN [alive |-> TRUE, tried |-> {<<"tcp", k>>}]
    ELSE LET rest == scan_host_socket(ports, k + 1)
         IN [alive |-> rest.alive, tried |-> {<<"tcp", k>>} \cup rest.tried]

\* (mutant) every test is made, whatever the earlier ones gave
scan_ip_tests_AllTests(a) ==
    IF a.discovered THEN [alive |-> FALSE, tried |-> {}]
    ELSE [alive |-> \/ ping_host(a.ping)
                    \/ arping_host(a.arping)
                    \/ scan_host_socket(a.ports, 1).alive,
          tried |-> {<<"ping", 0>>, <<"arping", 0>>}
                       \cup {<<"tcp", k>> : k \in ProbePorts}]

\* scan_ip with its tests spelled out: nothing is tried for an address that
\* is already discovered; else ping, arping, then the TCP connects
scan_ip_tests(a) ==
    IF a.discovered THEN [alive |-> FALSE, tried |-> {}]
    ELSE IF ping_host(a.ping) THEN [alive |-> TRUE, tried |-> {<<"ping", 0>>}]
    ELSE IF arping_host(a.arping)
         THEN [alive |-> TRUE, tried |-> {<<"ping", 0>>, <<"arping", 0>>}]
         ELSE LET s == scan_host_socket(a.ports, 1)
              IN [alive |-> s.alive,
                  tried |-> {<<"ping", 0>>, <<"arping", 0>>} \cup s.tried]

\* the TCP loop of is_host_alive from port k on; the flag is seen set from
\* the check before port stop_from on (0: at the check before the loop)
RECURSIVE QuickPorts(_, _, _)
QuickPorts(ports, k, stop_from) ==
    IF k > Len(ports) THEN [alive |-> FALSE, tried |-> {}, stopped |-> FALSE]
    ELSE IF stop_from <= k THEN [alive |-> FALSE, tried |-> {}, stopped |-> TRUE]
    ELSE IF ports[k] = "success"
         THEN [alive |-> TRUE, tried |-> {<<"tcp", k>>}, stopped |-> FALSE]
         ELSE LET rest == QuickPorts(ports, k + 1, stop_from)
              IN [alive |-> rest.alive, tried |-> {<<"tcp", k>>} \cup rest.tried,
                  stopped |-> rest.stopped]

\* is_host_alive with its tests spelled out: the TCP connects, the mDNS
\* datagram (which decides nothing), then the neighbour-table entry
is_host_alive_tests(a) ==
    LET q == QuickPorts(a.ports, 1, a.stop_from)
    IN IF q.alive \/ q.stopped THEN [alive |-> q.alive, tried |-> q.tried]
       ELSE [alive |-> a.arp = "success", tried |-> q.tried \cup {<<"arp", 0>>}]

\* the calls of scan_ip: whether the address is already discovered, and how
\* each test would end
ScanIpCalls ==
    [fn : {"scan_ip"}, discovered : BOOLEAN, ping : TestOutcomes,
     arping : TestOutcomes, ports : [ProbePorts -> TestOutcomes]]

\* the calls of is_host_alive: how each test would end, and the check from
\* which the stop flag is seen set (MaxProbePorts + 1: never)
IsHostAliveCalls ==
    [fn : {"is_host_alive"}, stop_from : 0..(MaxProbePorts + 1),
     ports : [ProbePorts -> TestOutcomes], arp : TestOutcomes]

\* a worker is about to run a probe
ProbeInit ==
    /\ pc = "phase3"
    /\ local_ip = 1
    /\ discovered_hosts = {}
    /\ arp_hosts = {}
    /\ nmap_hosts = {}
    /\ final_arp_hosts = {}
    /\ sorted_hosts = <<>>
    /\ fut = Submitted
    /\ scan_results = <<>>
    /\ MonIdle
    /\ LookupIdle
    /\ DeepIdle
    /\ WolIdle
    /\ fn_pc = "called"
    /\ fn_args \in ScanIpCalls \cup IsHostAliveCalls
    /\ fn_ret = <<>>

CallScanIp ==
    /\ fn_pc = "called"
    /\ fn_args.fn = "scan_ip"
    /\ fn_ret' = scan_ip_tests(fn_args)
    /\ fn_pc' = "returned"
    /\ UNCHANGED <<fn_args, exceptFn>>

CallIsHostAlive ==
    /\ fn_pc = "called"
    /\ fn_args.fn = "is_host_alive"
    /\ fn_ret' = is_host_alive_tests(fn_args)
    /\ fn_pc' = "returned"
    /\ UNCHANGED <<fn_args, exceptFn>>

ProbeNext == CallScanIp \/ CallIsHostAlive

SpecProbe == ProbeInit /\ [][ProbeNext]_vars

\* the tests of the probe that was called
ProbeTests ==
    {<<"tcp", k>> : k \in ProbePorts} \cup
    (IF fn_args.fn = "scan_ip" THEN {<<"ping", 0>>, <<"arping", 0>>}
     ELSE {<<"arp", 0>>})

\* how a test of the probe that was called would end
TestOutcome(t) ==
    IF t[1] = "tcp" THEN fn_args.ports[t[2]]
    ELSE IF t[1] = "ping" THEN fn_args.ping
    ELSE IF t[1] = "arping" THEN fn_args.arping
    ELSE fn_args.arp

\* the probe was cut short: the address was already discovered, or the stop
\* flag was seen set before a connect had succeeded
CutShort ==
    IF fn_args.fn = "scan_ip" THEN fn_args.discovered
    ELSE /\ fn_args.stop_from <= MaxProbePorts
         /\ \A k \in ProbePorts :
               k < fn_args.stop_from => fn_args.ports[k] # "success"

(* -------------------------- vendor resolution --------------------------- *)

\* the hexadecimal digits as they may be written
HexChars == {"0","1","2","3","4","5","6","7","8","9",
             "a","b","c","d","e","f","A","B","C","D","E","F"}

\* what get_mac_address may hand to the vendor resolution: the sentinel, or
\* an address; the addresses modelled have any second digit and a prefix
\* that may be in the vendor table
MacInputs ==
    {Unknown} \cup
    { <<first, second>> \o rest :
         first \in {"0", "5", "D", "a"},
         second \in HexChars,
         rest \in { <<":","5","0",":","5","6",":","0","0",":","0","0",":","0","3">>,
                    <<":","5","4",":","0","0",":","0","0",":","0","0",":","0","4">>,
                    <<":","A","1",":","1","9",":","0","0",":","0","0",":","0","2">> } }

\* a record is about to be built for a host with some hardware address
VendorInit ==
    /\ pc = "store"
    /\ local_ip = 1
    /\ discovered_hosts = {}
    /\ arp_hosts = {}
    /\ nmap_hosts = {}
    /\ final_arp_hosts = {}
    /\ sorted_hosts = <<>>
    /\ fut = NoFutures
    /\ scan_results = <<>>
    /\ MonIdle
    /\ LookupIdle
    /\ DeepIdle
    /\ WolIdle
    /\ fn_pc = "called"
    /\ fn_args \in MacInputs
    /\ fn_ret = <<>>

\* the fields discovery and the monitor's join compute from the address:
\* vendor = get_vendor_from_mac(mac), 'private_mac': is_private_mac(mac)
ResolveVendor ==
    /\ fn_pc = "called"
    /\ fn_ret' = [mac |-> fn_args,
                  vendor |-> get_vendor_from_mac(fn_args),
                  private_mac |-> is_private_mac(fn_args)]
    /\ fn_pc' = "returned"
    /\ UNCHANGED <<fn_args, exceptFn>>

SpecVendor == VendorInit /\ [][ResolveVendor]_vars

\* the second hexadecimal digit of the address is 2, 6, A or E
SecondDigitRandomized(mac) ==
    /\ mac # Unknown
    /\ mac[2] \in {"2", "6", "a", "A", "e", "E"}

(* ------------------------- hostname resolution -------------------------- *)

\* the methods of get_hostname, in the order of the code: gethostbyaddr,
\* nmblookup, avahi-resolve, getent hosts, /etc/hosts, arp -a, host, nmap -R
Methods == 1..8

\* the name prefetched from arp -a by get_hostname_from_arp is method 0
Prefetched == 0

\* the methods whose answer may be the address itself
AnswersAddress == {1, 8}

\* what a method answers: a name, the address itself, or nothing (no
\* answer, a non-zero exit code, a missing tool, a timeout: except: pass)
MethodAnswers == {"name", "address", "none"}

\* the name method k answers with
Name(k) == <<"n", "a", "m", "e", "-", ToString(k)>>

\* (mutant) the answer of gethostbyaddr is not compared with the address
RECURSIVE get_hostname_methods_NoCompare(_, _)
get_hostname_methods_NoCompare(answers, k) ==
    IF k > Len(answers) THEN Unknown
    ELSE IF answers[k] = "name" THEN Name(k)
    ELSE IF answers[k] = "address" /\ k = 1 THEN <<"i", "p">>
    ELSE get_hostname_methods_NoCompare(answers, k + 1)

\* get_hostname from method k on: the first method that yields a name
\* returns it; an answer equal to the address, no answer and an exception
\* go on to the next method; "Unknown" after the last
RECURSIVE get_hostname_methods(_, _)
get_hostname_methods(answers, k) ==
    IF k > Len(answers) THEN Unknown
    ELSE IF answers[k] = "name" THEN Name(k)
    ELSE get_hostname_methods(answers, k + 1)

\* arp_hostnames.get(ip): the prefetched name, or None
ArpHostnamesGet(arp_name) == IF arp_name = "name" THEN Name(Prefetched) ELSE <<>>

\* hostname = arp_hostnames.get(ip) or get_hostname(ip)
StoredHostname(arp_name, answers) ==
    IF ArpHostnamesGet(arp_name) # <<>> THEN ArpHostnamesGet(arp_name)
    ELSE get_hostname_methods(answers, 1)

\* what the resolvers may answer for one address
HostnameCalls ==
    [arp_name : {"name", "none"},
     answers : {a \in [Methods -> MethodAnswers] :
                   \A k \in Methods : a[k] = "address" => k \in AnswersAddress}]

\* the record of a discovered address is about to be built
HostnameInit ==
    /\ pc = "store"
    /\ local_ip = 1
    /\ discovered_hosts = {}
    /\ arp_hosts = {}
    /\ nmap_hosts = {}
    /\ final_arp_hosts = {}
    /\ sorted_hosts = <<>>
    /\ fut = NoFutures
    /\ scan_results = <<>>
    /\ MonIdle
    /\ LookupIdle
    /\ DeepIdle
    /\ WolIdle
    /\ fn_pc = "called"
    /\ fn_args \in HostnameCalls
    /\ fn_ret = <<>>

\* 'hostname': hostname of the record
ResolveHostname ==
    /\ fn_pc = "called"
    /\ fn_ret' = StoredHostname(fn_args.arp_name, fn_args.answers)
    /\ fn_pc' = "returned"
    /\ UNCHANGED <<fn_args, exceptFn>>

SpecHostname == HostnameInit /\ [][ResolveHostname]_vars

\* method k yielded a name other than the address
Yields(k) ==
    IF k = Prefetched THEN fn_args.arp_name = "name"
    ELSE fn_args.answers[k] = "name"

\* the name of the first method of `order` that yields one, or the sentinel
FirstIn(order) ==
    IF \E j \in 1..Len(order) : Yields(order[j])
    THEN Name(order[CHOOSE j \in 1..Len(order) :
                       /\ Yields(order[j])
                       /\ \A h \in 1..(j - 1) : ~Yields(order[h])])
    ELSE Unknown

(* ------------------------- online vendor lookup ------------------------- *)

\* the hosts whose records the lookup is run on: without a neighbour-table
\* entry, randomized, of a vendor the table knows, and two of no known vendor
LookupHosts == {1, 2, 3, 5, 10}

\* how a query ends: the status code of the response, or an exception
HttpOutcomes == {"200", "404", "500", "raises"}

\* response.text.strip() of a 200 response
AnsweredVendor == <<"A","c","m","e">>

\* device.get('private_mac')
GetPrivateMac(d) == IF "private_mac" \in DOMAIN d THEN d.private_mac ELSE FALSE

\* (mutant) the randomized addresses are not skipped
Queried_NoSkip(d) ==
    /\ d.mac # Unknown
    /\ d.vendor \in {UnknownVendor, PrivateMAC, Unknown}

\* the three `continue` tests: the device is queried when its address is
\* known, its vendor is one of the unresolved values and it is not flagged
\* private_mac
Queried(d) ==
    /\ d.mac # Unknown
    /\ d.vendor \in {UnknownVendor, PrivateMAC, Unknown}
    /\ ~GetPrivateMac(d)

\* the try block for one device: the query, the update on 200 and the wait;
\* an exception leaves the block before the wait
QueryLog(d, outcome) ==
    IF outcome = "raises"
    THEN << [op |-> "get", ip |-> d.ip, outcome |-> outcome] >>
    ELSE << [op |-> "get", ip |-> d.ip, outcome |-> outcome], [op |-> "sleep"] >>

\* device['vendor'] = vendor on status 200
Answered(d, outcome) ==
    IF outcome = "200" THEN [d EXCEPT !.vendor = AnsweredVendor] ELSE d

\* choice '4': online_mac_lookup(scan_results) is entered
LookupInit ==
    /\ pc = "menu"
    /\ local_ip = 1
    /\ discovered_hosts = {}
    /\ arp_hosts = {}
    /\ nmap_hosts = {}
    /\ final_arp_hosts = {}
    /\ sorted_hosts = <<>>
    /\ fut = NoFutures
    /\ \E hosts \in SUBSET LookupHosts \ {{}} :
          scan_results = StoreRecords(SortedList(hosts), 1)
    /\ MonIdle
    /\ DeepIdle
    /\ WolIdle
    /\ FnIdle
    /\ lookup_pc = "loop"
    /\ lookup_idx = 1
    /\ http_log = <<>>

\* one iteration of `for device in scan_results`
LookupDevice ==
    /\ lookup_pc = "loop"
    /\ lookup_idx <= Len(scan_results)
    /\ LET d == scan_results[lookup_idx]
       IN IF Queried(d)
          THEN \E outcome \in HttpOutcomes :
                  /\ http_log' = http_log \o QueryLog(d, outcome)
                  /\ scan_results' =
                        [scan_results EXCEPT ![lookup_idx] = Answered(d, outcome)]
          ELSE UNCHANGED <<http_log, scan_results>>
    /\ lookup_idx' = lookup_idx + 1
    /\ UNCHANGED <<lookup_pc, pc, discVars, fut, monVars, deepVars, wolVars, fnVars>>

\* the loop is over: "Lookup complete"
LookupDone ==
    /\ lookup_pc = "loop"
    /\ lookup_idx > Len(scan_results)
    /\ lookup_pc' = "done"
    /\ UNCHANGED <<lookup_idx, http_log, scanVars, deepVars, wolVars, fnVars>>

LookupNext == LookupDevice \/ LookupDone

SpecLookup == LookupInit /\ [][LookupNext]_vars

\* the entries a step appends to the log
NewLog == SubSeq(http_log', Len(http_log) + 1, Len(http_log'))

(* ------------------- discovery over a static network -------------------- *)

\* a static network: what each phase is answered, address by address
StaticNetworks ==
    [arp1 : SUBSET Addrs, nmap : SUBSET Addrs, alive : [Addrs -> BOOLEAN],
     arp2 : SUBSET Addrs]

\* discovery starts on a static network (kept in fn_args)
StaticInit ==
    /\ pc = "phase1"
    /\ local_ip = 1
    /\ discovered_hosts = {}
    /\ arp_hosts = {}
    /\ nmap_hosts = {}
    /\ final_arp_hosts = {}
    /\ sorted_hosts = <<>>
    /\ fut = NoFutures
    /\ scan_results = <<>>
    /\ MonIdle
    /\ DeepIdle
    /\ WolIdle
    /\ LookupIdle
    /\ fn_pc = "called"
    /\ fn_args \in StaticNetworks
    /\ fn_ret = <<>>

\* the phases of discovery, each answered as the static network answers
StaticArpPhase == ArpPhase /\ arp_hosts' = fn_args.arp1

StaticNmapPhase == NmapPhase /\ nmap_hosts' = fn_args.nmap

StaticScanIp(i) == ScanIp(i) /\ fut'[i].res = scan_ip(i, fn_args.alive[i])

StaticFinalArp == FinalArpAndSort /\ final_arp_hosts' = fn_args.arp2

StaticNext ==
    \/ StaticArpPhase
    \/ StaticNmapPhase
    \/ \E i \in Addrs : StaticScanIp(i)
    \/ \E i \in Addrs : CollectResult(i)
    \/ StaticFinalArp
    \/ StoreResults

SpecStatic == StaticInit /\ [][StaticNext]_vars

\* the addresses some phase is answered for
StaticAnswered ==
    fn_args.arp1 \cup fn_args.nmap \cup {i \in Addrs : fn_args.alive[i]}
       \cup fn_args.arp2

(* ------------------------ the sorted host list -------------------------- *)
\* Addresses as the text the sources deliver: characters, octets separated by
\* dots.  All of them lie in the scanned /24, so they share network_range.

\* most addresses in one list
MaxListed == 3

network_range == <<"1", "0", ".", "0", ".", "1">>

\* the last octets that occur, as printed (no leading zeros)
LastOctets ==
    { <<"1">>, <<"2">>, <<"9">>, <<"1","0">>, <<"1","1">>, <<"1","9">>,
      <<"2","0">>, <<"1","0","0">>, <<"1","0","1">>, <<"2","5","4">> }

HostTexts == { network_range \o <<".">> \o o : o \in LastOctets }

\* x.split('.')
RECURSIVE split(_)
split(x) ==
    IF \A k \in 1..Len(x) : x[k] # "." THEN <<x>>
    ELSE LET d == CHOOSE k \in 1..Len(x) :
                     x[k] = "." /\ \A j \in 1..(k - 1) : x[j] # "."
         IN  <<SubSeq(x, 1, d - 1)>> \o split(SubSeq(x, d + 1, Len(x)))

\* int(p) for a string of decimal digits
RECURSIVE int(_)
int(p) ==
    IF p = <<>> THEN 0
    ELSE 10 * int(SubSeq(p, 1, Len(p) - 1)) + HexVal(p[Len(p)])

\* the code point of a character of an address
Ord(c) == IF c = "." THEN 46 ELSE 48 + HexVal(c)

\* (mutant) no key: the addresses compare as text
SortKey_Text(x) == [k \in 1..Len(x) |-> Ord(x[k])]

\* key=lambda x: [int(p) for p in x.split('.')]
SortKey(x) == [k \in 1..Len(split(x)) |-> int(split(x)[k])]

\* list < list: decided at the first position where they differ, a proper
\* prefix being smaller
ListLess(a, b) ==
    \/ \E k \in 1..Len(a) :
          /\ k <= Len(b)
          /\ a[k] < b[k]
          /\ \A j \in 1..(k - 1) : a[j] = b[j]
    \/ Len(a) < Len(b) /\ \A j \in 1..Len(a) : a[j] = b[j]

\* one element put in its place in a sorted list, after those of equal key
RECURSIVE InsertByKey(_, _)
InsertByKey(l, x) ==
    IF l = <<>> THEN <<x>>
    ELSE IF ListLess(SortKey(x), SortKey(l[1])) THEN <<x>> \o l
    ELSE <<l[1]>> \o InsertByKey(Tail(l), x)

\* sorted(l, key=...): a stable sort
RECURSIVE sorted(_)
sorted(l) ==
    IF l = <<>> THEN <<>>
    ELSE InsertByKey(sorted(SubSeq(l, 1, Len(l) - 1)), l[Len(l)])

\* list(a set): its elements once each, in an order the set decides
RECURSIVE list(_)
list(S) ==
    IF S = {} THEN {<<>>}
    ELSE UNION { {<<x>> \o l : l \in list(S \ {x})} : x \in S }

\* the sets of at most n elements of S
RECURSIVE SetsUpTo(_, _)
SetsUpTo(S, n) ==
    IF n = 0 THEN {{}}
    ELSE LET smaller == SetsUpTo(S, n - 1)
         IN  smaller \cup UNION { {T \cup {x} : x \in S} : T \in smaller }

\* fn_args: the set of discovered addresses
SortInit ==
    /\ pc = "phase3"
    /\ DiscInit
    /\ fut = NoFutures
    /\ scan_results = <<>>
    /\ MonIdle
    /\ DeepIdle
    /\ WolIdle
    /\ LookupIdle
    /\ fn_pc = "called"
    /\ fn_args \in SetsUpTo(HostTexts, MaxListed)
    /\ fn_ret = <<>>

SortHosts ==
    /\ fn_pc = "called"
    /\ \E l \in list(fn_args) : fn_ret' = sorted(l)
    /\ fn_pc' = "returned"
    /\ UNCHANGED exceptFn
    /\ UNCHANGED fn_args

SpecSort == SortInit /\ [][SortHosts]_vars

\* the address as one number, most significant octet first
RECURSIVE Number(_)
Number(octets) ==
    IF octets = <<>> THEN 0
    ELSE 256 * Number(SubSeq(octets, 1, Len(octets) - 1))
            + int(octets[Len(octets)])

(* ------------------ the monitor on a static network --------------------- *)

\* what the network answers while the monitor runs: the addresses the nmap
\* pass reports, whether an address answers is_host_alive's tests, and the
\* addresses with a complete entry in the neighbour table
CycleNetworks ==
    [nmap : SUBSET Addrs, alive : [Addrs -> BOOLEAN], table : SUBSET Addrs]

\* monitor_network has just been entered, every address known, address 1
\* the local one; the network's answers are kept in fn_args
CycleInit ==
    /\ pc = "mon_while"
    /\ local_ip = 1
    /\ discovered_hosts = {}
    /\ arp_hosts = {}
    /\ nmap_hosts = {}
    /\ final_arp_hosts = {}
    /\ sorted_hosts = <<>>
    /\ fut = NoFutures
    /\ scan_results = StoreRecords(SortedList(Addrs), 1)
    /\ known_devices = DictFromList(scan_results)
    /\ stop_monitoring = FALSE
    /\ alive_hosts = {}
    /\ current_ips = {}
    /\ known_ips = {}
    /\ todo_ips = {}
    /\ events = NoEvents
    /\ sleep_tick = 0
    /\ mon_error = FALSE
    /\ sigint_handler = "signal_handler"
    /\ old_handler = "default_int_handler"
    /\ LookupIdle
    /\ DeepIdle
    /\ WolIdle
    /\ fn_pc = "called"
    /\ fn_args \in CycleNetworks
    /\ fn_ret = <<>>

\* the steps of active_network_scan, answered as the network answers
CycleNmap ==
    /\ ActiveScanNmap
    /\ IF fn_args.nmap # {}
       THEN pc' = "mon_scanned" /\ current_ips' = fn_args.nmap
       ELSE pc' = "as_pool"

CycleCheckIp(i) ==
    /\ CheckIp(i)
    /\ fut'[i].res = is_host_alive(stop_monitoring, fn_args.alive[i])

CycleArp == ActiveScanArp /\ current_ips' = alive_hosts \cup fn_args.table

CycleNext ==
    \/ Interrupt
    \/ MonWhile
    \/ MonCheck
    \/ CycleNmap
    \/ \E i \in Addrs : CycleCheckIp(i)
    \/ \E i \in Addrs : MonCollect(i)
    \/ MonPoolDone
    \/ AsCompletedTimeout
    \/ PoolExit
    \/ CycleArp
    \/ MonScanned
    \/ MonJoin
    \/ MonLeave
    \/ MonSleep
    \/ MonTick
    \/ MonExcept
    \/ MonReturnMerge

SpecCycle == CycleInit /\ [][CycleNext]_vars

\* the addresses some signal of the cycle speaks for
CycleSignals ==
    fn_args.nmap \cup {i \in Addrs : fn_args.alive[i]} \cup fn_args.table

(* --------------------- the segment of an address ------------------------ *)

\* complete neighbour-table entries a host may hold: of the segment, of
\* other subnets whose text begins like the segment's, and of unrelated ones
TableTexts ==
    { <<"1","0",".","0",".","1",".","1">>,
      <<"1","0",".","0",".","1",".","2","0">>,
      <<"1","0",".","0",".","1","0",".","5">>,
      <<"1","0",".","0",".","1","2",".","9">>,
      <<"1","0",".","0",".","1","0","0",".","1">>,
      <<"1","0",".","0",".","2",".","7">>,
      <<"1","7","2",".","1","6",".","0",".","1">> }

\* x.startswith(prefix)
startswith(x, prefix) ==
    Len(prefix) <= Len(x) /\ SubSeq(x, 1, Len(prefix)) = prefix

\* get_arp_cache_hosts: ip.startswith(network_range + '.')
ArpCacheAdmits(ip) == startswith(ip, network_range \o <<".">>)

\* active_network_scan: parts[0].startswith(network_range)
ActiveScanAdmits(ip) == startswith(ip, network_range)

\* fn_args: the neighbour table when it is read
SegmentInit ==
    /\ pc = "phase1"
    /\ DiscInit
    /\ fut = NoFutures
    /\ scan_results = <<>>
    /\ MonIdle
    /\ DeepIdle
    /\ WolIdle
    /\ LookupIdle
    /\ fn_pc = "called"
    /\ fn_args \in SUBSET TableTexts
    /\ fn_ret = <<>>

\* discovery reads the table
ReadArpCache ==
    /\ fn_pc = "called"
    /\ fn_ret' = [by |-> "get_arp_cache_hosts",
                  hosts |-> {ip \in fn_args : ArpCacheAdmits(ip)}]
    /\ fn_pc' = "returned"
    /\ UNCHANGED exceptFn
    /\ UNCHANGED fn_args

\* a monitor cycle reads the table
ReadNeighbours ==
    /\ fn_pc = "called"
    /\ fn_ret' = [by |-> "active_network_scan",
                  hosts |-> {ip \in fn_args : ActiveScanAdmits(ip)}]
    /\ fn_pc' = "returned"
    /\ UNCHANGED exceptFn
    /\ UNCHANGED fn_args

SegmentNext == ReadArpCache \/ ReadNeighbours

SpecSegment == SegmentInit /\ [][SegmentNext]_vars

\* the first three octets of the address are those of the segment
InSegment(ip) ==
    /\ Len(split(ip)) = 4
    /\ SubSeq(split(ip), 1, 3) = split(network_range)

(* --------------------------- the worker pools --------------------------- *)
\* The probes of one pool, counted: the tasks are alike, so the pool's state
\* is how many of them are running and how many have finished; the others
\* wait in the executor's queue.  fn_args names the function that opened the
\* pool, fn_ret holds the counts while the with-block is open.

\* range(1, 255): the tasks submitted to a pool
ips_to_scan == 254

PoolOwners == {"network_scanner", "active_network_scan"}

\* (mutant) a worker thread for every task
max_workers_PerTask(owner) == ips_to_scan

\* ThreadPoolExecutor(max_workers=...)
max_workers(owner) == IF owner = "network_scanner" THEN 50 ELSE 100

\* the with-block is entered and every address is submitted
PoolInit ==
    /\ pc = "phase3"
    /\ DiscInit
    /\ fut = NoFutures
    /\ scan_results = <<>>
    /\ MonIdle
    /\ DeepIdle
    /\ WolIdle
    /\ LookupIdle
    /\ fn_pc = "called"
    /\ fn_args \in [owner : PoolOwners]
    /\ fn_ret = [running |-> 0, finished |-> 0]

\* a worker thread takes a task from the queue: there are never more
\* threads than max_workers, and a thread runs one task at a time
PoolStart ==
    /\ fn_pc = "called"
    /\ fn_ret.running + fn_ret.finished < ips_to_scan
    /\ fn_ret.running < max_workers(fn_args.owner)
    /\ fn_ret' = [fn_ret EXCEPT !.running = @ + 1]
    /\ UNCHANGED <<fn_pc, fn_args, exceptFn>>

\* a probe returns
PoolFinish ==
    /\ fn_pc = "called"
    /\ fn_ret.running > 0
    /\ fn_ret' = [running |-> fn_ret.running - 1, finished |-> fn_ret.finished + 1]
    /\ UNCHANGED <<fn_pc, fn_args, exceptFn>>

\* the with-block is left
PoolShutdown ==
    /\ fn_pc = "called"
    /\ fn_ret.finished = ips_to_scan
    /\ fn_pc' = "returned"
    /\ UNCHANGED <<fn_args, fn_ret, exceptFn>>

PoolNext == PoolStart \/ PoolFinish \/ PoolShutdown

SpecPool == PoolInit /\ [][PoolNext]_vars

\* the tasks waiting in the queue
Queued == ips_to_scan - fn_ret.running - fn_ret.finished

(* ----------------------------- make_request ---------------------------- *)

RETRY_ATTEMPTS == 3

\* how one requests.get / raise_for_status may end: a response with a good
\* status, one with an error status, an exception of the requests library,
\* or an exception that is not one of the library's
Answers ==
    {"ok", "error_status", "ReadTimeout", "ConnectTimeout", "ConnectionError",
     "TooManyRedirects", "KeyError"}

\* what the try body raises, "" when it reaches `return response`:
\* raise_for_status() raises HTTPError for an error status
Raised(answer) ==
    IF answer = "ok" THEN ""
    ELSE IF answer = "error_status" THEN "HTTPError"
    ELSE answer

\* isinstance(exc, cls) in the exception hierarchy of requests
IsInstance(exc, cls) ==
    \/ exc = cls
    \/ cls = "Timeout" /\ exc \in {"ReadTimeout", "ConnectTimeout"}
    \/ cls = "ConnectionError" /\ exc = "ConnectTimeout"
    \/ cls = "RequestException"
          /\ exc \in {"ReadTimeout", "ConnectTimeout", "ConnectionError",
                      "HTTPError", "TooManyRedirects"}

\* the except clauses, in the order they are written
ExceptClauses == <<"Timeout", "ConnectionError", "HTTPError", "RequestException">>

\* (mutant) the first clause catches every exception
ExceptClause_CatchAll(exc) == "Timeout"

\* the first clause that catches the exception, "" when none does
ExceptClause(exc) ==
    IF \E k \in 1..Len(ExceptClauses) : IsInstance(exc, ExceptClauses[k])
    THEN ExceptClauses[CHOOSE k \in 1..Len(ExceptClauses) :
                          /\ IsInstance(exc, ExceptClauses[k])
                          /\ \A j \in 1..(k - 1) : ~IsInstance(exc, ExceptClauses[j])]
    ELSE ""

\* make_request from the given attempt on (range(RETRY_ATTEMPTS) counts from
\* 0); answers[k] is how the k-th request would end.  requests and sleeps
\* count the calls of requests.get and of time.sleep(1).
RECURSIVE make_request(_, _)
make_request(answers, attempt) ==
    IF attempt >= RETRY_ATTEMPTS
    THEN [ret |-> "None", requests |-> 0, sleeps |-> 0]
    ELSE LET exc == Raised(answers[attempt + 1])
         IN  IF exc = "" THEN [ret |-> "response", requests |-> 1, sleeps |-> 0]
             ELSE IF ExceptClause(exc) = "Timeout"
                  THEN LET rest == make_request(answers, attempt + 1)
                       IN  [ret |-> rest.ret, requests |-> rest.requests + 1,
                            sleeps |-> rest.sleeps + 1]
             ELSE IF ExceptClause(exc) = ""
                  THEN [ret |-> "raises", requests |-> 1, sleeps |-> 0]
             ELSE [ret |-> "None", requests |-> 1, sleeps |-> 0]

\* fn_args: how each request would end, one more than may be made
RequestInit ==
    /\ pc = "start"
    /\ DiscInit
    /\ fut = NoFutures
    /\ scan_results = <<>>
    /\ MonIdle
    /\ DeepIdle
    /\ WolIdle
    /\ LookupIdle
    /\ fn_pc = "called"
    /\ fn_args \in [1..(RETRY_ATTEMPTS + 1) -> Answers]
    /\ fn_ret = <<>>

CallMakeRequest ==
    /\ fn_pc = "called"
    /\ fn_ret' = make_request(fn_args, 0)
    /\ fn_pc' = "returned"
    /\ UNCHANGED <<fn_args, exceptFn>>

SpecRequest == RequestInit /\ [][CallMakeRequest]_vars

\* the request timed out
TimedOut(answer) == answer \in {"ReadTimeout", "ConnectTimeout"}

\* the first RETRY_ATTEMPTS requests that would not time out
NotTimedOut == {k \in 1..RETRY_ATTEMPTS : ~TimedOut(fn_args[k])}

(* ------------------------------- claims --------------------------------- *)

\* C1: after a discovery run that determined the local IP, the host set
\* holds the local machine's own address, flagged is_local, whatever the
\* phases returned.
C1_LocalAlwaysPresent ==
    (pc = "menu" /\ local_ip # NoIp) =>
        \E k \in 1..Len(scan_results) :
            scan_results[k].ip = local_ip /\ GetIsLocal(scan_results[k])

C3_LocalNeverEvicted ==
    [][ /\ (pc \in MonitorPcs /\ pc' \in MonitorPcs
              /\ local_ip \in DictKeys(known_devices))
           => local_ip \in DictKeys(known_devices')
        /\ (pc' \in MonitorPcs /\ local_ip \in Addrs)
           => events'[<<"left", local_ip>>] = 0
        /\ pc = "mon_finally"
           => \A k \in 1..Len(scan_results) :
                 GetIsLocal(scan_results[k])
                    => scan_results[k].ip \in Ips(scan_results') ]_vars

\* a completed cycle whose scan did not reconfirm the local machine, which
\* is still known
C3_Witness ==
    /\ pc = "mon_sleep" /\ sleep_tick = 0 /\ ~stop_monitoring
    /\ local_ip \in known_ips \ current_ips
    /\ local_ip \in DictKeys(known_devices)

\* C4: the addresses discovery stores are exactly the union of the first
\* neighbour-table read, the nmap result, the addresses whose probe was
\* positive and the second neighbour-table read.
C4_DiscoveryIsUnion ==
    [][ pc = "store" =>
           Ips(scan_results') =
              arp_hosts \cup nmap_hosts \cup Positive \cup final_arp_hosts ]_vars

\* discovery ends with neighbour-table addresses only: nmap found nothing
\* and no probe was positive
C4_Witness ==
    /\ pc = "store"
    /\ arp_hosts # {} /\ nmap_hosts = {} /\ Positive = {}
    /\ final_arp_hosts = {}
    /\ Range(sorted_hosts) = arp_hosts

\* C5: monitor mode survives a failing cycle: an exception raised while a
\* cycle scans is absorbed and the loop goes on; monitoring ends only when
\* the stop signal is set.
C5_EndsOnlyOnStop ==
    pc = "mon_finally" => stop_monitoring

\* C10: no two records of scan_results, and no two records of the
\* monitor's known set, have the same address.
C10_OneRecordPerAddress ==
    /\ \A h, k \in 1..Len(scan_results) :
          scan_results[h].ip = scan_results[k].ip => h = k
    /\ \A h, k \in DictKeys(known_devices) :
          known_devices[h].ip = known_devices[k].ip => h = k

\* back in the menu after a monitor run whose joined device was merged
\* into the scan results
C10_Witness ==
    /\ pc = "menu"
    /\ Len(scan_results) >= 2
    /\ \E k \in 1..Len(scan_results) : "is_local" \notin DOMAIN scan_results[k]

\* C6: when some signature scores above zero, the type is a signature
\* label whose count of open ports is maximal and, among the labels of that
\* count, the first declared; it is a function of the open ports alone, and
\* {80, 443, 8080} gives Router/Gateway.
C6_HighestFirstDeclared ==
    (ds_pc = "classified" /\ ~NoSignatureScores) =>
        /\ \E k \in 1..Len(device_signatures) :
              /\ device_type = device_signatures[k].label
              /\ \A j \in 1..Len(device_signatures) : OpenCount(j) <= OpenCount(k)
              /\ \A j \in 1..(k - 1) : OpenCount(j) < OpenCount(k)
        /\ host_ports = {80, 443, 8080} => device_type = "Router/Gateway"

\* {80, 443, 8080}: Router/Gateway and Web Server both score 3
C6_Witness ==
    /\ ds_pc = "classified"
    /\ host_ports = {80, 443, 8080}
    /\ device_type = "Router/Gateway"

\* C7: whenever no signature scores above zero, the type is
\* Mobile Device for a randomized hardware address and Stealth/Firewall
\* otherwise.
C7_FallbackAsStated ==
    (ds_pc = "classified" /\ NoSignatureScores) =>
        device_type = (IF ds_device.private_mac THEN "Mobile Device"
                       ELSE "Stealth/Firewall")

\* C7, by the type's default: when no scanned port is open the type is Mobile Device for a
\* randomized hardware address and Stealth/Firewall otherwise; when only
\* diagnostic ports (23, 3389, 5900) are open it is Unknown Device.
C7_Fallback ==
    (ds_pc = "classified" /\ NoSignatureScores) =>
        device_type = (IF host_ports # {} THEN "Unknown Device"
                       ELSE IF ds_device.private_mac THEN "Mobile Device"
                       ELSE "Stealth/Firewall")

\* a host with a randomized address and Telnet as its only open port
C7_Witness ==
    /\ ds_pc = "classified"
    /\ host_ports = {23}
    /\ ds_device.private_mac
    /\ device_type = "Unknown Device"

\* C8: an address that does not decode to exactly 6 bytes is rejected as an
\* invalid address, not reported as a send error, and no datagram is sent.
C8_InvalidRejected ==
    (wol_pc = "done" /\ ~DecodesTo6Bytes(mac_to_wake)) =>
        /\ wol_report \in {"Invalid MAC address format.", "No MAC address specified."}
        /\ datagrams = <<>>

\* C9: a valid address of twelve hexadecimal digits, with or without ':',
\* '-' or '.' separators, whose send does not fail, sends exactly one
\* datagram, to the broadcast address and port 9, of 102 bytes: six 0xFF,
\* then the six address bytes sixteen times; a failed send sends none.
C9_MagicPacket ==
    (wol_pc = "done" /\ DecodesTo6Bytes(mac_to_wake)) =>
        \/ /\ wol_report = "Error sending packet"
           /\ datagrams = <<>>
        \/ /\ wol_report = "Magic packet sent"
           /\ Len(datagrams) = 1
           /\ datagrams[1].host = "255.255.255.255"
           /\ datagrams[1].port = 9
           /\ Len(datagrams[1].payload) = 102
           /\ \A k \in 1..6 : datagrams[1].payload[k] = 255
           /\ \A r \in 0..15 : \A b \in 1..6 :
                 datagrams[1].payload[6 + 6 * r + b] =
                    16 * HexVal(Digits(mac_to_wake)[2 * b - 1])
                       + HexVal(Digits(mac_to_wake)[2 * b])

\* a valid address typed with dots, and its packet sent
C9_Witness ==
    /\ wol_pc = "done"
    /\ DecodesTo6Bytes(mac_to_wake)
    /\ \E k \in 1..Len(mac_to_wake) : mac_to_wake[k] = "."
    /\ Len(datagrams) = 1
    /\ Len(datagrams[1].payload) = 102

\* C11: once the stop flag is set the loop begins no further cycle, the
\* flag stays set for the rest of the run, the monitor reaches its finally
\* block and returns, and the devices then known are those handed back to
\* the scan results.
C11_Cancellation ==
    /\ [][ stop_monitoring =>
              /\ ~(pc = "mon_while" /\ pc' = "mon_check")
              /\ (pc' \in MonitorPcs => stop_monitoring')
              /\ (pc = "mon_finally" /\ pc' = "menu" /\ known_devices # EmptyDict)
                 => Ips(scan_results') =
                       DictKeys(known_devices) \cup
                       {scan_results[k].ip : k \in {j \in 1..Len(scan_results) :
                                                       GetIsLocal(scan_results[j])}} ]_vars
    /\ (stop_monitoring /\ pc \in MonitorPcs) ~> (pc = "menu")

\* the monitor stopped by the signal, about to return the devices it knows
C11_Witness ==
    /\ pc = "mon_finally"
    /\ stop_monitoring
    /\ ~mon_error
    /\ known_devices # EmptyDict

\* C12: however the sources of discovery end, each of them that failed or
\* raised contributes no address, and phases 1 and 2 complete with the
\* union of what the others listed.
C12_SourcesDegrade ==
    fn_pc = "returned" =>
        /\ fn_ret.arp_hosts = ArpAnswered
        /\ fn_ret.nmap_hosts = NmapAnswered
        /\ fn_ret.discovered_hosts = ArpAnswered \cup NmapAnswered

\* arp -a raises and nmap exits non-zero although both list an address,
\* which the result lacks; arp -n answers
C12_Witness ==
    /\ fn_pc = "returned"
    /\ fn_args.arp[1].status = "raises" /\ fn_args.arp[1].out = {1}
    /\ fn_args.arp[2].status = "ok" /\ fn_args.arp[2].out = {2}
    /\ fn_args.arp[3].status = "failed"
    /\ fn_args.nmap.status = "failed" /\ fn_args.nmap.out = {1}
    /\ fn_ret.discovered_hosts = {2}

\* C13: a probe reports alive if and only if one of the tests it made
\* succeeded, and reports not-alive only after all of its tests were made
\* and failed.
C13_PureDisjunction ==
    fn_pc = "returned" =>
        /\ fn_ret.alive <=> \E t \in fn_ret.tried : TestOutcome(t) = "success"
        /\ ~fn_ret.alive => fn_ret.tried = ProbeTests

\* C13, with the probes that are cut short: a probe reports alive if and
\* only if one of the tests it made succeeded; it reports not-alive after
\* all of its tests were made and none succeeded, a raising test counting as
\* failed, or without making the remaining tests when scan_ip is called for
\* an address already discovered or is_host_alive sees the stop flag set.
C13_Probe ==
    fn_pc = "returned" =>
        /\ fn_ret.alive \in BOOLEAN
        /\ fn_ret.alive <=> \E t \in fn_ret.tried : TestOutcome(t) = "success"
        /\ (~fn_ret.alive /\ ~CutShort) =>
              /\ fn_ret.tried = ProbeTests
              /\ \A t \in ProbeTests : TestOutcome(t) # "success"
        /\ CutShort => ~fn_ret.alive

\* every test of a probe was made, one of them raised, none succeeded
C13_Witness ==
    /\ fn_pc = "returned"
    /\ ~CutShort
    /\ ~fn_ret.alive
    /\ fn_ret.tried = ProbeTests
    /\ \E t \in ProbeTests : TestOutcome(t) = "raises"

\* C14: an address whose second hexadecimal digit is 2, 6, A or E resolves
\* to the vendor Private MAC, whatever the vendor table holds for its
\* prefix, and is flagged private_mac; in the fields of a record, the vendor
\* is Private MAC if and only if private_mac is set.
C14_PrivateVendor ==
    fn_pc = "returned" =>
        /\ SecondDigitRandomized(fn_ret.mac) =>
              fn_ret.vendor = PrivateMAC /\ fn_ret.private_mac
        /\ fn_ret.vendor = PrivateMAC <=> fn_ret.private_mac
        /\ fn_ret.private_mac => SecondDigitRandomized(fn_ret.mac)

\* a randomized address whose prefix, 52:54:00, the vendor table knows
C14_Witness ==
    /\ fn_pc = "returned"
    /\ Prefix(fn_ret.mac, 8) = <<"5","2",":","5","4",":","0","0">>
    /\ fn_ret.vendor = PrivateMAC
    /\ fn_ret.private_mac

\* C15: the hostname stored is the answer of the first method, in the order
\* reverse resolution, NetBIOS, mDNS, static hosts (getent, /etc/hosts),
\* neighbour-table name (prefetched, then method 6), PTR (host, nmap), that
\* yields a name other than the address; else the sentinel.
C15_ChainAsClaimed ==
    fn_pc = "returned" => fn_ret = FirstIn(<<1, 2, 3, 4, 5, 0, 6, 7, 8>>)

\* C15, in the order of the code: the hostname stored is the prefetched
\* neighbour-table name when there is one; else the answer of the first
\* method, in the order reverse resolution, NetBIOS, mDNS, getent hosts,
\* /etc/hosts, neighbour-table name, host PTR, nmap PTR, that yields a name
\* other than the address; else the sentinel.
C15_Chain ==
    fn_pc = "returned" => fn_ret = FirstIn(<<0, 1, 2, 3, 4, 5, 6, 7, 8>>)

\* reverse resolution answers the address itself, NetBIOS nothing, and the
\* mDNS name is stored although later methods answer too
C15_Witness ==
    /\ fn_pc = "returned"
    /\ fn_args.arp_name = "none"
    /\ fn_args.answers[1] = "address"
    /\ fn_args.answers[2] = "none"
    /\ fn_args.answers[3] = "name"
    /\ fn_args.answers[4] = "name"
    /\ fn_ret = Name(3)

\* C16: between any two consecutive HTTP queries of the lookup there is a
\* wait, also when the earlier query raised.
C16_RateLimited ==
    \A j \in 1..(Len(http_log) - 1) :
        ~(http_log[j].op = "get" /\ http_log[j + 1].op = "get")

\* C17: a query is issued only for a record whose hardware address is
\* known, whose vendor is unresolved and which is not randomized, and a
\* record changes only in its vendor and only when its query is answered
\* with 200.
C17_QueriesAndUpdates ==
    [][ /\ \A j \in 1..Len(NewLog) :
              NewLog[j].op = "get" =>
                 \E k \in 1..Len(scan_results) :
                    /\ scan_results[k].ip = NewLog[j].ip
                    /\ scan_results[k].mac # Unknown
                    /\ scan_results[k].vendor = UnknownVendor
                    /\ ~is_private_mac(scan_results[k].mac)
                    /\ ~scan_results[k].private_mac
        /\ Len(scan_results') = Len(scan_results)
        /\ \A k \in 1..Len(scan_results) :
              scan_results'[k] # scan_results[k] =>
                 /\ \E j \in 1..Len(NewLog) :
                       /\ NewLog[j].op = "get"
                       /\ NewLog[j].ip = scan_results[k].ip
                       /\ NewLog[j].outcome = "200"
                 /\ scan_results'[k] =
                       [scan_results[k] EXCEPT !.vendor = scan_results'[k].vendor] ]_vars

\* the lookup is over: a randomized and a resolved record were passed
\* over, one query was answered with 404 and left its record alone, another
\* with 200
C17_Witness ==
    /\ lookup_pc = "done"
    /\ Ips(scan_results) = LookupHosts
    /\ \E j \in 1..Len(http_log) :
          /\ http_log[j].op = "get" /\ http_log[j].outcome = "404"
          /\ \E k \in 1..Len(scan_results) :
                /\ scan_results[k].ip = http_log[j].ip
                /\ scan_results[k].vendor = UnknownVendor
    /\ \E j \in 1..Len(http_log) :
          http_log[j].op = "get" /\ http_log[j].outcome = "200"
    /\ \A j \in 1..Len(http_log) :
          http_log[j].op = "get" => http_log[j].ip \in {5, 10}

\* C18: on a static network the address set discovery ends with is a
\* function of the answers alone, the same for every order in which the
\* workers run and complete: the addresses some phase is answered for.
C18_Deterministic ==
    /\ pc \in {"store", "exit"} => Range(sorted_hosts) = StaticAnswered
    /\ pc = "menu" => Ips(scan_results) = StaticAnswered

\* a run is over in which one worker skipped an address that answers,
\* because it was discovered before the worker ran, and another worker's
\* positive result was added
C18_Witness ==
    /\ pc = "store"
    /\ \E i \in Addrs : fn_args.alive[i] /\ ~fut[i].res
    /\ \E i \in Addrs : fut[i].res /\ i \notin fn_args.arp1 \cup fn_args.nmap

\* C19: the sorted host list holds every discovered address exactly once, in
\* ascending order of the addresses read as numbers (x.x.x.9 before
\* x.x.x.10).
C19_NumericOrder ==
    fn_pc = "returned" =>
        /\ Range(fn_ret) = fn_args
        /\ Len(fn_ret) = Cardinality(fn_args)
        /\ \A j, k \in 1..Len(fn_ret) :
              j < k => Number(split(fn_ret[j])) < Number(split(fn_ret[k]))

\* a list was sorted that holds .9 right before .10, and .100 too
C19_Witness ==
    /\ fn_pc = "returned"
    /\ \E j \in 1..Len(fn_ret) :
          /\ j + 2 <= Len(fn_ret)
          /\ fn_ret[j] = network_range \o <<".", "9">>
          /\ fn_ret[j + 1] = network_range \o <<".", "1", "0">>
          /\ fn_ret[j + 2] = network_range \o <<".", "1", "0", "0">>

\* C20: every record of scan_results carries all six identity fields: ip,
\* mac, hostname, vendor, is_local and private_mac, whatever discovery,
\* monitor runs and merges came before.
C20_IdentityFields ==
    \A k \in 1..Len(scan_results) :
        DOMAIN scan_results[k] =
            {"ip", "mac", "hostname", "vendor", "is_local", "private_mac"}

\* C21: the host set of a monitor cycle is the union of the cycle's signals:
\* every address the nmap pass reports, that answers a probe or that has a
\* complete neighbour-table entry is in the set the cycle is diffed with, and
\* no "left" is printed for it.
C21_CycleIsUnion ==
    /\ pc \in {"mon_new", "mon_gone"} => CycleSignals \subseteq current_ips
    /\ \A i \in CycleSignals : events[<<"left", i>>] = 0

\* C22: every address admitted from the neighbour table, by discovery or by
\* a monitor cycle, is of the local /24: its first three octets are the
\* segment's.
C22_OneSegment ==
    fn_pc = "returned" => \A ip \in fn_ret.hosts : InSegment(ip)

\* the tests were made in this order, none after one that succeeded: a test
\* was made only if every test before it was made and did not succeed
TriedInOrder(order) ==
    /\ fn_ret.tried \subseteq Range(order)
    /\ \A j \in 1..Len(order) :
          order[j] \in fn_ret.tried =>
              \A h \in 1..(j - 1) :
                  order[h] \in fn_ret.tried /\ TestOutcome(order[h]) # "success"

\* the TCP connects, port by port
TcpTests == [k \in ProbePorts |-> <<"tcp", k>>]

\* C23: a liveness probe makes its tests in the order TCP connects, one ICMP
\* echo, neighbour-table lookup, and none after one that succeeded.
C23_TcpEchoTable ==
    fn_pc = "returned" =>
        TriedInOrder(TcpTests \o << <<"ping", 0>>, <<"arp", 0>> >>)

\* C23, each probe with the order of its own tests: scan_ip makes the ICMP
\* echo, then the ARP ping, then the TCP connects; is_host_alive makes the
\* TCP connects, then the neighbour-table lookup; neither makes a test after
\* one that succeeded.
C23_TestOrder ==
    fn_pc = "returned" =>
        IF fn_args.fn = "scan_ip"
        THEN TriedInOrder(<< <<"ping", 0>>, <<"arping", 0>> >> \o TcpTests)
        ELSE TriedInOrder(TcpTests \o << <<"arp", 0>> >>)

\* scan_ip: the echo went unanswered, the ARP ping was answered, and no
\* connect was made although a port would have accepted it
C23_Witness ==
    /\ fn_pc = "returned"
    /\ fn_args.fn = "scan_ip"
    /\ fn_ret.tried = {<<"ping", 0>>, <<"arping", 0>>}
    /\ fn_ret.alive
    /\ \E k \in ProbePorts : fn_args.ports[k] = "success"

\* C24: no probe task outlives the monitor: the worker pool of a cycle is
\* left, by the end of the loop, by the break on the stop flag or by the
\* as_completed timeout, only when every submitted task has finished, and
\* no task is pending when monitor_network returns.
C24_NoTaskOutlives ==
    /\ [][ (pc \in {"as_pool", "as_pool_exit", "as_pool_raise"}
              /\ pc' \notin {"as_pool", "as_pool_exit", "as_pool_raise"})
           => \A i \in Addrs : fut[i].st \in {"done", "yielded"} ]_vars
    /\ [](pc \in {"mon_except", "mon_finally", "menu"}
            => \A i \in Addrs : fut[i].st # "pending")

\* the monitor is about to return after a cycle in which as_completed timed
\* out on a worker and the stop flag was set
C24_Witness ==
    /\ pc = "mon_finally"
    /\ mon_error
    /\ stop_monitoring

\* C25: the sleep between two cycles is made of at most 10 half-second
\* ticks, the stop flag being looked at before each: once the flag is set no
\* new tick begins, so that at most the tick in progress elapses, and the
\* loop then ends without another scan.
C25_InterruptibleSleep ==
    /\ [](sleep_tick <= SleepTicks)
    /\ [][ stop_monitoring =>
              /\ ~(pc = "mon_sleep" /\ pc' = "mon_tick")
              /\ (pc = "mon_tick" => pc' \in {"mon_tick", "mon_sleep"})
              /\ (pc = "mon_sleep" => pc' \in {"mon_sleep", "mon_while"})
              /\ (pc = "mon_while" => pc' \in {"mon_while", "mon_finally"}) ]_vars

\* the stop flag was set while the fourth tick of a sleep was in progress
C25_Witness ==
    /\ pc = "mon_tick"
    /\ sleep_tick = 3
    /\ stop_monitoring

\* C26: at no time, in discovery or in a monitor cycle's threaded scan, are
\* more than 50 liveness probes running at once.
C26_AtMost50 == fn_ret.running <= 50

\* C26, each pool with its own size: at no time are more than 50 probes
\* running at once in discovery, nor more than 100 in a monitor cycle's
\* threaded scan, although 254 are submitted.
C26_BoundedWorkers ==
    /\ fn_args.owner = "network_scanner" => fn_ret.running <= 50
    /\ fn_args.owner = "active_network_scan" => fn_ret.running <= 100
    /\ fn_ret.running + fn_ret.finished <= ips_to_scan

\* discovery's pool is full while probes still wait in the queue
C26_Witness ==
    /\ fn_pc = "called"
    /\ fn_args.owner = "network_scanner"
    /\ fn_ret.running = 50
    /\ Queued > 0

\* C27: a scan interrupted by cancellation produces no event: with the stop
\* flag set before the cycle's result is diffed, the monitor goes on to its
\* end without diffing, prints no "joined" and no "left", and leaves the
\* known set as it was before the cycle.
C27_CancelledScanDiscarded ==
    [][ (stop_monitoring
           /\ pc \in {"mon_check", "as_nmap", "as_pool", "as_pool_exit",
                      "as_pool_raise", "as_arp", "mon_scanned", "mon_except"})
        => /\ pc' \in {"mon_check", "as_nmap", "as_pool", "as_pool_exit",
                       "as_pool_raise", "as_arp", "mon_scanned", "mon_except",
                       "mon_finally"}
           /\ known_devices' = known_devices
           /\ events' = events ]_vars

\* the monitor is about to return after a cancelled cycle whose scan had
\* found an address that is not known; it was not reported
C27_Witness ==
    /\ pc = "mon_finally"
    /\ stop_monitoring
    /\ current_ips \ DictKeys(known_devices) # {}
    /\ events = NoEvents

\* C28: when monitor mode returns to the menu, the addresses of the scan
\* results are those of the monitor's final known set together with those of
\* the records flagged is_local, also when the final known set is empty.
C28_Synchronised ==
    [][ (pc = "mon_finally" /\ pc' = "menu") =>
           Ips(scan_results') =
              DictKeys(known_devices) \cup
              {scan_results'[k].ip : k \in {j \in 1..Len(scan_results') :
                                              GetIsLocal(scan_results'[j])}} ]_vars

\* C29: monitor_network restores the SIGINT handler: its own handler is
\* installed while the loop runs, and on every way out of the loop (stop
\* flag, exception) the handler in force once it has returned is the one
\* that was in force before the call.
C29_HandlerRestored ==
    /\ pc \in MonitorPcs =>
          sigint_handler = "signal_handler" /\ old_handler = "default_int_handler"
    /\ pc \notin MonitorPcs => sigint_handler = "default_int_handler"
    /\ [][ (pc = "mon_finally" /\ pc' = "menu") => sigint_handler' = old_handler ]_vars

\* back in the menu, the handler restored, after a monitor run whose joined
\* device was merged into the scan results
C29_Witness ==
    /\ pc = "menu"
    /\ sigint_handler = "default_int_handler"
    /\ \E k \in 1..Len(scan_results) : "is_local" \notin DOMAIN scan_results[k]

\* C30: make_request issues at most RETRY_ATTEMPTS requests; it issues
\* another one only after a timeout; it returns the first response of good
\* status; it returns None, without another request, on a connection error,
\* an error status or any other exception of the requests library; and it
\* returns None after RETRY_ATTEMPTS timeouts in a row.
C30_AtMostThreeRequests ==
    fn_pc = "returned" =>
        /\ fn_ret.requests <= RETRY_ATTEMPTS
        /\ fn_ret.sleeps <= fn_ret.requests
        /\ \A k \in 1..(fn_ret.requests - 1) : TimedOut(fn_args[k])
        /\ IF NotTimedOut = {}
           THEN fn_ret.requests = RETRY_ATTEMPTS /\ fn_ret.ret = "None"
           ELSE /\ fn_ret.requests = Min(NotTimedOut)
                /\ fn_args[fn_ret.requests] = "ok" <=> fn_ret.ret = "response"
                /\ fn_args[fn_ret.requests]
                      \in {"error_status", "ConnectionError", "TooManyRedirects"}
                   => fn_ret.ret = "None"

\* two timeouts, then the third request is answered
C30_Witness ==
    /\ fn_pc = "returned"
    /\ fn_ret.requests = RETRY_ATTEMPTS
    /\ fn_ret.ret = "response"
    /\ fn_args[1] = "ConnectTimeout"
    /\ fn_args[2] = "ReadTimeout"

====
